---------------------------- MODULE Spec2Model ----------------------------
(***************************************************************************)
(* Model of the slowclaw gateway: the DocStore chat worker                 *)
(* (src/src/pocketbase_chat.rs) and the gateway admission layer            *)
(* (src/src/gateway/mod.rs).  Each component has its own specification     *)
(* over its own group of variables; the other groups stay unchanged.       *)
(***************************************************************************)
EXTENDS Integers, Sequences, FiniteSets, TLC

(***************************************************************************)
(* Bounds of the model.  The three worker constants are the source's       *)
(* constants scaled down (30 records per page, 5 pages, 8 records per      *)
(* tick in the source) so that several pages and the per-tick cap occur    *)
(* with a handful of records.                                              *)
(***************************************************************************)
FETCH_PAGE_SIZE == 2
MAX_FETCH_PAGES == 2
MAX_PENDING_PER_POLL == 2
MaxUserPosts == 3
MaxFailures == 2

Min(a, b) == IF a < b THEN a ELSE b
Max(a, b) == IF a > b THEN a ELSE b

RECURSIVE Reverse(_)
Unreversed(s) == s
Reverse(s) == IF s = << >> THEN << >> ELSE Append(Reverse(Tail(s)), Head(s))

Truncate(s, n) == SubSeq(s, 1, Min(Len(s), n))

(***************************************************************************)
(* Record contents and the reminder parser of the chat worker.  A string   *)
(* is the sequence of its UTF-8 bytes: an ASCII character is one byte, the *)
(* character U+00E9 is the two bytes C3 A9.  Indexing a str by a byte      *)
(* range panics when an end of the range is not a character boundary.      *)
(***************************************************************************)
NoIntent == << "<none>" >>
ParsePanic == << "<panic>" >>

IsContinuation(b) == b \in {"A9"}

\* str::is_char_boundary
is_char_boundary(str, i) ==
    \/ i = 0
    \/ i = Len(str)
    \/ i < Len(str) /\ ~IsContinuation(str[i + 1])

\* &str[from..]
SliceFrom(str, from) == SubSeq(str, from + 1, Len(str))

\* &str[..to]
SliceTo(str, to) == SubSeq(str, 1, to)

IsWhitespace(b) == b = " "
IsAsciiDigit(b) == b \in {"0", "1", "2", "3", "4", "5", "6", "7", "8", "9"}
IsAsciiAlphabetic(b) ==
    b \in {"a", "b", "c", "d", "e", "f", "g", "h", "i", "j", "k", "l", "m", "n",
           "o", "p", "q", "r", "s", "t", "u", "v", "w", "x", "y", "z", "R"}
IsTrailingPunctuation(b) == b \in {".", "!", "?", ",", ";"}

RECURSIVE StrTrimStart(_)
StrTrimStart(str) ==
    IF str # << >> /\ IsWhitespace(Head(str)) THEN StrTrimStart(Tail(str)) ELSE str

RECURSIVE StrTrimEnd(_)
StrTrimEnd(str) ==
    IF str # << >> /\ IsWhitespace(str[Len(str)])
    THEN StrTrimEnd(SubSeq(str, 1, Len(str) - 1)) ELSE str

StrTrim(str) == StrTrimEnd(StrTrimStart(str))

RECURSIVE TrimEndPunctuation(_)
TrimEndPunctuation(str) ==
    IF str # << >> /\ IsTrailingPunctuation(str[Len(str)])
    THEN TrimEndPunctuation(SubSeq(str, 1, Len(str) - 1)) ELSE str

\* str::to_ascii_lowercase: every byte keeps its place.
to_ascii_lowercase(str) ==
    [i \in 1..Len(str) |->
        CASE str[i] = "R" -> "r"
          [] str[i] = "P" -> "p"
          [] str[i] = "B" -> "b"
          [] OTHER -> str[i]]

eq_ignore_ascii_case(a, b) == to_ascii_lowercase(a) = to_ascii_lowercase(b)

str_starts_with(str, pat) ==
    Len(str) >= Len(pat) /\ SubSeq(str, 1, Len(pat)) = pat

\* The byte offsets at which pat occurs in str.
Occurrences(str, pat) ==
    {i \in 0..(Len(str) - Len(pat)) : SubSeq(str, i + 1, i + Len(pat)) = pat}

\* str::find and str::rfind (-1: None)
StrFind(str, pat) ==
    IF Occurrences(str, pat) = {} THEN -1
    ELSE CHOOSE i \in Occurrences(str, pat) : \A j \in Occurrences(str, pat) : i <= j
StrRFind(str, pat) ==
    IF Occurrences(str, pat) = {} THEN -1
    ELSE CHOOSE i \in Occurrences(str, pat) : \A j \in Occurrences(str, pat) : i >= j

\* chars().take_while(pred).count() for an ASCII predicate.
RECURSIVE LeadingDigits(_)
LeadingDigits(str) ==
    IF str # << >> /\ IsAsciiDigit(Head(str)) THEN 1 + LeadingDigits(Tail(str)) ELSE 0

RECURSIVE LeadingLetters(_)
LeadingLetters(str) ==
    IF str # << >> /\ IsAsciiAlphabetic(Head(str)) THEN 1 + LeadingLetters(Tail(str)) ELSE 0

DelayUnits ==
    { << "s" >>,
      << "s", "e", "c" >>,
      << "s", "e", "c", "s" >>,
      << "s", "e", "c", "o", "n", "d" >>,
      << "s", "e", "c", "o", "n", "d", "s" >>,
      << "m" >>,
      << "m", "i", "n" >>,
      << "m", "i", "n", "s" >>,
      << "m", "i", "n", "u", "t", "e" >>,
      << "m", "i", "n", "u", "t", "e", "s" >>,
      << "h" >>,
      << "h", "r" >>,
      << "h", "r", "s" >>,
      << "h", "o", "u", "r" >>,
      << "h", "o", "u", "r", "s" >>,
      << "d" >>,
      << "d", "a", "y" >>,
      << "d", "a", "y", "s" >> }

\* A natural number of any magnitude is the sequence of its decimal digits,
\* the most significant first; zero is the empty sequence.
DecDigits == << "0", "1", "2", "3", "4", "5", "6", "7", "8", "9" >>
DigitValue(c) == (CHOOSE v \in 1..10 : DecDigits[v] = c) - 1

RECURSIVE StripZeros(_)
StripZeros(d) == IF d # << >> /\ Head(d) = 0 THEN StripZeros(Tail(d)) ELSE d

Decimal(text) == StripZeros([i \in 1..Len(text) |-> DigitValue(text[i])])

RECURSIVE DecLess(_, _)
DecLess(a, b) ==
    IF Len(a) # Len(b) THEN Len(a) < Len(b)
    ELSE IF a = << >> THEN FALSE
    ELSE IF Head(a) # Head(b) THEN Head(a) < Head(b)
    ELSE DecLess(Tail(a), Tail(b))

RECURSIVE IntDecimal(_)
IntDecimal(n) == IF n = 0 THEN << >> ELSE Append(IntDecimal(n \div 10), n % 10)

RECURSIVE MulCarry(_, _, _)
MulCarry(d, k, carry) ==
    IF d = << >> THEN IntDecimal(carry)
    ELSE LET v == d[Len(d)] * k + carry
         IN Append(MulCarry(SubSeq(d, 1, Len(d) - 1), k, v \div 10), v % 10)

DecTimes(d, k) == StripZeros(MulCarry(d, k, 0))

\* format!("{amount}")
DecText(d) == IF d = << >> THEN << "0" >> ELSE [i \in 1..Len(d) |-> DecDigits[d[i] + 1]]

\* i64::MAX = 9223372036854775807
I64_MAX == << 9, 2, 2, 3, 3, 7, 2, 0, 3, 6, 8, 5, 4, 7, 7, 5, 8, 0, 7 >>

\* chrono's TimeDelta::MAX is i64::MAX milliseconds; TimeDelta::seconds,
\* minutes, hours and days panic ("out of bounds") beyond it.
MaxDurationSeconds == << 9, 2, 2, 3, 3, 7, 2, 0, 3, 6, 8, 5, 4, 7, 7, 5 >>

\* The match on the unit: the seconds of one unit and its label.
UnitSeconds(unit) ==
    CASE Head(unit) = "s" -> 1
      [] Head(unit) = "m" -> 60
      [] Head(unit) = "h" -> 3600
      [] Head(unit) = "d" -> 86400
UnitLabel(unit) ==
    CASE Head(unit) = "s" -> << "s", "e", "c", "o", "n", "d" >>
      [] Head(unit) = "m" -> << "m", "i", "n", "u", "t", "e" >>
      [] Head(unit) = "h" -> << "h", "o", "u", "r" >>
      [] Head(unit) = "d" -> << "d", "a", "y" >>

\* s[..digit_len].parse::<i64>().ok()
ParsesAsI64(amount) == ~DecLess(I64_MAX, amount)

\* A result of parse_leading_delay: (delay, human, rest); rest is NoIntent
\* for None and ParsePanic when the duration is out of bounds.
Leading(delay, human, rest) == [delay |-> delay, human |-> human, rest |-> rest]
LeadingNone == Leading(<< >>, << >>, NoIntent)
LeadingPanic == Leading(<< >>, << >>, ParsePanic)

parse_leading_delay(input) ==
    LET str == StrTrimStart(input)
        digit_len == LeadingDigits(str)
        amount == Decimal(SliceTo(str, digit_len))
        after_num == StrTrimStart(SliceFrom(str, digit_len))
        unit_len == LeadingLetters(after_num)
        unit == to_ascii_lowercase(SliceTo(after_num, unit_len))
    IN IF digit_len = 0 THEN LeadingNone
       ELSE IF ~ParsesAsI64(amount) THEN LeadingNone
       ELSE IF amount = << >> THEN LeadingNone
       ELSE IF unit_len = 0 THEN LeadingNone
       ELSE IF unit \notin DelayUnits THEN LeadingNone
       ELSE IF DecLess(MaxDurationSeconds, DecTimes(amount, UnitSeconds(unit)))
            THEN LeadingPanic
       ELSE Leading(DecTimes(amount, UnitSeconds(unit)),
                    DecText(amount) \o << " " >> \o UnitLabel(unit)
                        \o (IF amount = << 1 >> THEN << >> ELSE << "s" >>),
                    StrTrimStart(SliceFrom(after_num, unit_len)))

PrefixAbout == << "a", "b", "o", "u", "t", " " >>
PrefixTo == << "t", "o", " " >>

\* One round of the prefix loop of normalize_reminder_message: "panic" when
\* text[..prefix.len()] cuts a character, "hit" when the prefix is there.
PrefixCheck(text, prefix) ==
    IF Len(text) < Len(prefix) THEN "miss"
    ELSE IF ~is_char_boundary(text, Len(prefix)) THEN "panic"
    ELSE IF eq_ignore_ascii_case(SliceTo(text, Len(prefix)), prefix) THEN "hit"
    ELSE "miss"

Finish(text) == StrTrim(TrimEndPunctuation(text))

normalize_reminder_message(raw) ==
    LET text == StrTrim(raw)
        about == PrefixCheck(text, PrefixAbout)
        to == PrefixCheck(text, PrefixTo)
    IN IF text = << >> THEN << >>
       ELSE IF about = "panic" THEN ParsePanic
       ELSE IF about = "hit" THEN Finish(StrTrim(SliceFrom(text, Len(PrefixAbout))))
       ELSE IF to = "panic" THEN ParsePanic
       ELSE IF to = "hit" THEN Finish(StrTrim(SliceFrom(text, Len(PrefixTo))))
       ELSE Finish(text)

\* A parser's result from its message: a panic passes through, an empty
\* message is no intent.
ReminderIntent(message, delay, delay_human) ==
    [message |-> message, delay |-> delay, delay_human |-> delay_human]
IntentNone == ReminderIntent(NoIntent, << >>, << >>)
IntentPanic == ReminderIntent(ParsePanic, << >>, << >>)
Intent(message, leading) ==
    IF message = ParsePanic THEN IntentPanic
    ELSE IF message = << >> THEN IntentNone
    ELSE ReminderIntent(message, leading.delay, leading.human)

SlashRemind == << "/", "r", "e", "m", "i", "n", "d", " " >>
RemindMe == << "r", "e", "m", "i", "n", "d", " ", "m", "e" >>
InWord == << " ", "i", "n", " " >>
ReminderWord == << "r", "e", "m", "i", "n", "d", "e", "r" >>
ReminderMarkers ==
    << << "s", "e", "t", " ", "a", " ", "r", "e", "m", "i", "n", "d", "e", "r", " ", "t", "o" >>,
       << "s", "e", "t", " ", "a", " ", "r", "e", "m", "i", "n", "d", "e", "r", " ", "f", "o", "r" >>,
       << "s", "e", "t", " ", "r", "e", "m", "i", "n", "d", "e", "r", " ", "t", "o" >>,
       << "s", "e", "t", " ", "r", "e", "m", "i", "n", "d", "e", "r", " ", "f", "o", "r" >>,
       << "r", "e", "m", "i", "n", "d", "e", "r", " ", "t", "o" >>,
       << "r", "e", "m", "i", "n", "d", "e", "r", " ", "f", "o", "r" >> >>

\* The marker loop of parse_set_reminder_intent: where the message starts in
\* head (the first marker found in lower that ends inside head), or -1.
RECURSIVE MarkerStart(_, _, _)
MarkerStart(lower, head, markers) ==
    IF markers = << >> THEN -1
    ELSE LET pos == StrFind(lower, Head(markers))
             start == pos + Len(Head(markers))
         IN IF pos # -1 /\ start <= Len(head) THEN start
            ELSE MarkerStart(lower, head, Tail(markers))

parse_slash_reminder_intent(input) ==
    LET trimmed == StrTrim(input)
        lower == to_ascii_lowercase(trimmed)
        rest == StrTrim(SliceFrom(trimmed, 8))
        remainder == parse_leading_delay(rest)
    IN IF ~str_starts_with(lower, SlashRemind) THEN IntentNone
       ELSE IF remainder.rest = NoIntent THEN IntentNone
       ELSE IF remainder.rest = ParsePanic THEN IntentPanic
       ELSE Intent(normalize_reminder_message(remainder.rest), remainder)

parse_natural_language_reminder_intent(input) ==
    LET trimmed == StrTrim(input)
        lower == to_ascii_lowercase(trimmed)
        remind_pos == StrFind(lower, RemindMe)
        remind_phrase_end == remind_pos + Len(RemindMe)
        remind_tail == StrTrim(SliceFrom(trimmed, remind_phrase_end))
        in_pos == StrRFind(lower, InWord)
        head == StrTrim(SliceTo(trimmed, in_pos))
        tail == StrTrim(SliceFrom(trimmed, in_pos + 4))
        tail_after_delay == parse_leading_delay(tail)
        first == IF Len(head) >= remind_phrase_end
                 THEN normalize_reminder_message(SliceFrom(head, remind_phrase_end))
                 ELSE normalize_reminder_message(remind_tail)
    IN IF remind_pos = -1 THEN IntentNone
       ELSE IF in_pos = -1 THEN IntentNone
       ELSE IF tail_after_delay.rest = NoIntent THEN IntentNone
       ELSE IF tail_after_delay.rest = ParsePanic THEN IntentPanic
       ELSE IF first = << >>
            THEN Intent(normalize_reminder_message(tail_after_delay.rest), tail_after_delay)
       ELSE Intent(first, tail_after_delay)

parse_set_reminder_intent(input) ==
    LET trimmed == StrTrim(input)
        lower == to_ascii_lowercase(trimmed)
        in_pos == StrRFind(lower, InWord)
        head == StrTrim(SliceTo(trimmed, in_pos))
        tail == StrTrim(SliceFrom(trimmed, in_pos + 4))
        tail_after_delay == parse_leading_delay(tail)
        start == MarkerStart(lower, head, ReminderMarkers)
        message == IF start # -1 THEN SliceFrom(head, start) ELSE head
        first == normalize_reminder_message(message)
    IN IF Occurrences(lower, ReminderWord) = {} THEN IntentNone
       ELSE IF in_pos = -1 THEN IntentNone
       ELSE IF tail_after_delay.rest = NoIntent THEN IntentNone
       ELSE IF tail_after_delay.rest = ParsePanic THEN IntentPanic
       ELSE IF first = << >>
            THEN Intent(normalize_reminder_message(tail_after_delay.rest), tail_after_delay)
       ELSE Intent(first, tail_after_delay)

\* parse_reminder_intent: the three parsers in turn; a panic ends the chain.
parse_reminder_intent(input) ==
    LET slash == parse_slash_reminder_intent(input)
        natural == parse_natural_language_reminder_intent(input)
    IN IF slash # IntentNone THEN slash
       ELSE IF natural # IntentNone THEN natural
       ELSE parse_set_reminder_intent(input)

(***************************************************************************)
(* DocStore chat worker                                                    *)
(*   recs        the chat_messages collection; a record's id is its index  *)
(*   newestFirst the order the DocStore lists records in                   *)
(*   wpc         the worker's position in run_worker_loop / poll_once      *)
(*   page        the page fetch_pending_messages requests next             *)
(*   fetched     the pending user records collected by the page loop       *)
(*   pending     the records poll_once still has to handle in this tick    *)
(*   cur         the record poll_once is handling (0: none)                *)
(*   branch      the reply path: reminder or agent, Ok or Err              *)
(*   failures    the number of failed external calls so far                *)
(*   handed      per record, how often it was given to Agent.Process or    *)
(*               the reminder scheduler (history)                          *)
(*   pass        per record, the events of its latest handling (history)   *)
(*   poll        ctx.auto_save and, of the tick under way, the records     *)
(*               fetched (in the order the pages listed them) and the      *)
(*               records claimed so far; the records whose content went    *)
(*               to the memory store; what the latest tick left behind     *)
(*               when its claim PATCH failed (history)                     *)
(***************************************************************************)
VARIABLES recs, newestFirst, wpc, page, fetched, pending, cur, branch,
          failures, handed, pass, poll

workerVars == << recs, newestFirst, wpc, page, fetched, pending, cur, branch,
                 failures, handed, pass, poll >>

ContentKinds == {"empty", "reminder", "chat", "accented"}

\* The content a client posts, per kind: blank, `/remind 5m to go`, `hi`, and
\* `/remind 5m aa` followed by U+00E9.
ContentOf(kind) ==
    CASE kind = "empty" -> << " " >>
      [] kind = "reminder" ->
            << "/", "r", "e", "m", "i", "n", "d", " ", "5", "m", " ", "t", "o", " ", "g", "o" >>
      [] kind = "chat" -> << "h", "i" >>
      [] kind = "accented" ->
            << "/", "R", "e", "m", "i", "n", "d", " ", "5", "m", " ", "a", "a", "C3", "A9" >>
Outcomes == {"ok", "fail"}
MaxHanded == 2

\* content.trim() and parse_reminder_intent(&content) of each kind's content.
TrimmedContent == [kind \in ContentKinds |-> StrTrim(ContentOf(kind))]
ParsedIntent == [kind \in ContentKinds |-> parse_reminder_intent(ContentOf(kind))]

\* ChatRecord as the DocStore holds it.
ChatRecord(role, status, kind, replyToId) ==
    [role |-> role, status |-> status, kind |-> kind, replyToId |-> replyToId]

RecIds == 1..Len(recs)

\* GET /api/collections/<c>/records: the collection in the DocStore's order.
ListOrder ==
    IF newestFirst THEN [i \in 1..Len(recs) |-> Len(recs) + 1 - i]
    ELSE [i \in 1..Len(recs) |-> i]

\* One page of the listing (page p, perPage FETCH_PAGE_SIZE).
ListPage(p) ==
    SubSeq(ListOrder, (p - 1) * FETCH_PAGE_SIZE + 1,
           Min(p * FETCH_PAGE_SIZE, Len(recs)))

\* The filter of fetch_pending_messages: role user and status pending.
IsPendingUser(id) == recs[id].role = "user" /\ recs[id].status = "pending"

\* content.trim().is_empty()
IsEmptyContent(kind) == TrimmedContent[kind] = << >>

\* parse_reminder_intent(&content).is_some()
IsReminder(kind) == ParsedIntent[kind] \notin {IntentNone, IntentPanic}

\* parse_reminder_intent(&content) panics: the worker task ends.
ParsePanics(kind) == ParsedIntent[kind] = IntentPanic

\* An external call may fail while the failure budget lasts.
CallOutcomes == IF failures < MaxFailures THEN Outcomes ELSE {"ok"}
CountFailure(o) == failures' = IF o = "fail" THEN failures + 1 ELSE failures

SetStatus(id, st) == recs' = [recs EXCEPT ![id].status = st]

\* No claim PATCH of the tick has failed.
NoFailedClaim == [id |-> 0, handed |-> << >>, nrecs |-> 0, rest |-> << >>]

\* The claim PATCH of record id failed: the hand-overs and the collection's
\* size at that moment, and the records of the tick not claimed so far.
FailedClaim(id) ==
    [id |-> id, handed |-> handed, nrecs |-> Len(recs),
     rest |-> SelectSeq(pending,
                        LAMBDA r : r # id /\ \A i \in 1..Len(poll.claimed) : poll.claimed[i] # r)]

NewPoll(auto_save) ==
    [auto_save |-> auto_save, listed |-> << >>, claimed |-> << >>, stored |-> {},
     failed |-> NoFailedClaim]

\* The tick is over.
EndTick(p) == [p EXCEPT !.listed = << >>, !.claimed = << >>]

\* The claim PATCH of cur succeeded; if ctx.auto_save { store_chat_memory }
\* for a content that is not empty.
Claimed(p) ==
    [p EXCEPT !.claimed = Append(@, cur),
              !.stored = IF p.auto_save /\ ~IsEmptyContent(recs[cur].kind)
                         THEN @ \cup {cur} ELSE @]

Log(id, ev) == pass' = [pass EXCEPT ![id] = Append(@, ev)]

WorkerInit ==
    /\ recs = << >>
    /\ newestFirst \in BOOLEAN
    /\ wpc = "sleep"
    /\ page = 1
    /\ fetched = << >>
    /\ pending = << >>
    /\ cur = 0
    /\ branch = "none"
    /\ failures = 0
    /\ handed = << >>
    /\ pass = << >>
    /\ \E auto_save \in BOOLEAN : poll = NewPoll(auto_save)

\* A client writes a user record with status pending into the DocStore.
create_chat_user_message(kind) ==
    /\ Cardinality({i \in RecIds : recs[i].role = "user"}) < MaxUserPosts
    /\ recs' = Append(recs, ChatRecord("user", "pending", kind, 0))
    /\ handed' = Append(handed, 0)
    /\ pass' = Append(pass, << >>)
    /\ UNCHANGED << newestFirst, wpc, page, fetched, pending, cur, branch, failures,
                    poll >>

\* run_worker_loop: interval.tick() returns and poll_once starts.
run_worker_loop ==
    /\ wpc = "sleep"
    /\ wpc' = "fetch"
    /\ page' = 1
    /\ fetched' = << >>
    /\ poll' = [poll EXCEPT !.failed = NoFailedClaim]
    /\ UNCHANGED << recs, newestFirst, pending, cur, branch, failures, handed, pass >>

\* The next record of the for loop of poll_once, or the end of the tick.
NextRecord(rest) ==
    IF rest = << >>
    THEN /\ wpc' = "sleep"
         /\ cur' = 0
         /\ pending' = << >>
    ELSE /\ wpc' = "claim"
         /\ cur' = Head(rest)
         /\ pending' = Tail(rest)

\* poll_once gives up the tick: the error goes to run_worker_loop, which logs it.
AbortTick ==
    /\ wpc' = "sleep"
    /\ cur' = 0
    /\ pending' = << >>

\* fetch_pending_messages: one page request of the page loop.
fetch_pending_messages(o) ==
    /\ wpc = "fetch"
    /\ CountFailure(o)
    /\ IF o = "fail"
       THEN /\ AbortTick
            /\ poll' = EndTick(poll)
            /\ UNCHANGED << page, fetched >>
       ELSE LET items == ListPage(page)
                got == fetched \o SelectSeq(items, IsPendingUser)
            IN IF Len(items) < FETCH_PAGE_SIZE \/ page = MAX_FETCH_PAGES
               THEN /\ NextRecord(Truncate(Reverse(got), MAX_PENDING_PER_POLL))
                    /\ fetched' = << >>
                    /\ page' = 1
                    /\ poll' = IF got = << >> THEN EndTick(poll)
                               ELSE [poll EXCEPT !.listed = got]
               ELSE /\ page' = page + 1
                    /\ fetched' = got
                    /\ UNCHANGED << wpc, cur, pending, poll >>
    /\ branch' = "none"
    /\ UNCHANGED << recs, newestFirst, handed, pass >>

\* Where poll_once goes after a successful claim of a record of this kind.
RouteAfterClaim(kind) ==
    IF IsEmptyContent(kind) THEN "empty"
    ELSE IF ParsePanics(kind) THEN "panicked"
    ELSE IF IsReminder(kind) THEN "schedule"
    ELSE "agent"

\* The claim with its ? dropped: a failed claim PATCH no longer ends the tick.
poll_once_claim_unchecked(o) ==
    /\ wpc = "claim"
    /\ CountFailure(o)
    /\ IF o = "fail"
       THEN UNCHANGED recs
       ELSE SetStatus(cur, "processing")
    /\ pass' = [pass EXCEPT ![cur] = IF o = "fail" THEN << >> ELSE << "claim" >>]
    /\ poll' = IF o = "fail" THEN [Claimed(poll) EXCEPT !.failed = FailedClaim(cur)]
               ELSE Claimed(poll)
    /\ wpc' = RouteAfterClaim(recs[cur].kind)
    /\ UNCHANGED << cur, pending >>
    /\ UNCHANGED << newestFirst, page, fetched, branch, handed >>

\* poll_once: the claim, PATCH status = processing.
poll_once_claim(o) ==
    /\ wpc = "claim"
    /\ CountFailure(o)
    /\ IF o = "fail"
       THEN /\ AbortTick
            /\ poll' = EndTick([poll EXCEPT !.failed = FailedClaim(cur)])
            /\ UNCHANGED << recs, pass >>
       ELSE /\ SetStatus(cur, "processing")
            /\ pass' = [pass EXCEPT ![cur] = << "claim" >>]
            /\ poll' = Claimed(poll)
            /\ wpc' = RouteAfterClaim(recs[cur].kind)
            /\ UNCHANGED << cur, pending >>
    /\ UNCHANGED << newestFirst, page, fetched, branch, handed >>

\* poll_once: empty content, PATCH status = error and continue.
poll_once_empty(o) ==
    /\ wpc = "empty"
    /\ CountFailure(o)
    /\ IF o = "fail"
       THEN /\ AbortTick
            /\ UNCHANGED << recs, pass >>
       ELSE /\ SetStatus(cur, "error")
            /\ Log(cur, "terminal")
            /\ NextRecord(pending)
    /\ poll' = IF o = "fail" \/ pending = << >> THEN EndTick(poll) ELSE poll
    /\ UNCHANGED << newestFirst, page, fetched, branch, handed >>

Hand(id) == handed' = [handed EXCEPT ![id] = Min(@ + 1, MaxHanded)]

\* poll_once: schedule_pocketbase_chat_reminder (Scheduler.AddOnceAt and Update).
schedule_pocketbase_chat_reminder(o) ==
    /\ wpc = "schedule"
    /\ CountFailure(o)
    /\ Hand(cur)
    /\ Log(cur, "schedule")
    /\ branch' = IF o = "ok" THEN "reminder_ok" ELSE "reminder_err"
    /\ wpc' = "write"
    /\ UNCHANGED << recs, newestFirst, page, fetched, pending, cur, poll >>

\* poll_once: Agent.Process inside the channel execution context.
process_message(o) ==
    /\ wpc = "agent"
    /\ CountFailure(o)
    /\ Hand(cur)
    /\ Log(cur, "agent")
    /\ branch' = IF o = "ok" THEN "agent_ok" ELSE "agent_err"
    /\ wpc' = "write"
    /\ UNCHANGED << recs, newestFirst, page, fetched, pending, cur, poll >>

BranchOk == branch \in {"reminder_ok", "agent_ok"}

\* poll_once: create_record of the assistant record.  On the Ok path a failure
\* ends the tick (the ? operator); on the Err path the result is dropped.
create_record(o) ==
    /\ wpc = "write"
    /\ CountFailure(o)
    /\ IF o = "ok"
       THEN /\ recs' = Append(recs, ChatRecord("assistant",
                                  IF BranchOk THEN "done" ELSE "error", "reply", cur))
            /\ handed' = Append(handed, 0)
            /\ pass' = Append([pass EXCEPT ![cur] = Append(@, "write")], << >>)
       ELSE /\ Log(cur, "write_failed")
            /\ UNCHANGED << recs, handed >>
    /\ IF o = "fail" /\ BranchOk
       THEN /\ AbortTick
            /\ branch' = "none"
            /\ poll' = EndTick(poll)
       ELSE /\ wpc' = "terminal"
            /\ UNCHANGED << cur, pending, branch, poll >>
    /\ UNCHANGED << newestFirst, page, fetched >>

\* poll_once: the terminal PATCH of the source record, done or error.
poll_once_terminal(o) ==
    /\ wpc = "terminal"
    /\ CountFailure(o)
    /\ IF o = "fail"
       THEN /\ AbortTick
            /\ UNCHANGED << recs, pass >>
       ELSE /\ SetStatus(cur, IF BranchOk THEN "done" ELSE "error")
            /\ Log(cur, "terminal")
            /\ NextRecord(pending)
    /\ poll' = IF o = "fail" \/ pending = << >> THEN EndTick(poll) ELSE poll
    /\ branch' = "none"
    /\ UNCHANGED << newestFirst, page, fetched, handed >>

WorkerNext ==
    \/ \E k \in ContentKinds : create_chat_user_message(k)
    \/ run_worker_loop
    \/ \E o \in CallOutcomes : fetch_pending_messages(o)
    \/ \E o \in CallOutcomes : poll_once_claim(o)
    \/ \E o \in CallOutcomes : poll_once_empty(o)
    \/ \E o \in CallOutcomes : schedule_pocketbase_chat_reminder(o)
    \/ \E o \in CallOutcomes : process_message(o)
    \/ \E o \in CallOutcomes : create_record(o)
    \/ \E o \in CallOutcomes : poll_once_terminal(o)

\* The steps of the worker task itself (everything but the clients' writes).
WorkerStep ==
    \/ run_worker_loop
    \/ \E o \in CallOutcomes : fetch_pending_messages(o)
    \/ \E o \in CallOutcomes : poll_once_claim(o)
    \/ \E o \in CallOutcomes : poll_once_empty(o)
    \/ \E o \in CallOutcomes : schedule_pocketbase_chat_reminder(o)
    \/ \E o \in CallOutcomes : process_message(o)
    \/ \E o \in CallOutcomes : create_record(o)
    \/ \E o \in CallOutcomes : poll_once_terminal(o)

(***************************************************************************)
(* Sliding-window rate limiter (SlidingWindowRateLimiter)                  *)
(*   clock            the reading of the monotonic clock (Instant::now)    *)
(*   requests         the map key -> timestamps of the admitted requests   *)
(*   last_sweep       the time of the last sweep                           *)
(*   limit_per_window, max_keys   the limiter's configuration              *)
(*   lim_run          the run of calls on TrackedKey opened by its latest  *)
(*                    call that came a full window after its previous      *)
(*                    call: the times of the run's first and last call,    *)
(*                    its number of calls (up to limit + 1), the result    *)
(*                    of its last call, and whether the key was evicted    *)
(*                    during it (history)                                  *)
(*   lim_calls        per thread, the call it is in: the key and the clock *)
(*                    reading it made before it asked for the mutex        *)
(*   lim_obs          the latest finished call (key, result, key it        *)
(*                    evicted) and, where compare is set, the keys seen so *)
(*                    far and a second limiter that is given the calls on  *)
(*                    TrackedKey only, with its latest result (history)    *)
(* A call reads the clock and runs its body under the mutex; the model     *)
(* takes a call as one step at the clock reading it made.                  *)
(***************************************************************************)
VARIABLES clock, requests, last_sweep, limit_per_window, max_keys, lim_run,
          lim_calls, lim_obs

limiterVars == << clock, requests, last_sweep, limit_per_window, max_keys,
                  lim_run, lim_calls, lim_obs >>

Keys == {"a", "b", "c"}
NoKey == "none"
TrackedKey == "a"

\* Times are in ticks; the window of the source is 60 s and the sweep
\* interval 300 s.
RATE_LIMIT_WINDOW == 2
RATE_LIMITER_SWEEP_INTERVAL == 4
MaxClock == 4
MaxLimit == 2
MaxKeysConfig == 2

\* A map without the keys of a set.
Without(m, ks) == [k \in (DOMAIN m) \ ks |-> m[k]]

\* A map with key k set to v.
With(m, k, v) == [x \in (DOMAIN m) \cup {k} |-> IF x = k THEN v ELSE m[x]]

Last(seq) == seq[Len(seq)]

\* SlidingWindowRateLimiter::new: max_keys.max(1)
ClampMaxKeys(configured) == Max(configured, 1)

\* now.checked_sub(window).unwrap_or_else(Instant::now): when the clock
\* reading is smaller than the window the cutoff is a fresh clock reading.
Cutoff(now) == IF now >= RATE_LIMIT_WINDOW THEN now - RATE_LIMIT_WINDOW ELSE now

\* timestamps.retain(|t| *t > cutoff)
RetainInclusive(ts, cutoff) == SelectSeq(ts, LAMBDA t : t >= cutoff)
Retain(ts, cutoff) == SelectSeq(ts, LAMBDA t : t > cutoff)

\* prune_stale: keep the timestamps after the cutoff, drop the empty keys.
prune_stale(reqs, cutoff) ==
    LET kept == {k \in DOMAIN reqs : Retain(reqs[k], cutoff) # << >>}
    IN [k \in kept |-> Retain(reqs[k], cutoff)]

\* The key of min_by_key: the last timestamp, or the cutoff for an empty list.
EvictRank(reqs, k, cutoff) == IF reqs[k] = << >> THEN cutoff ELSE Last(reqs[k])

\* No key is taken out under cardinality pressure.
EvictCandidatesNone(reqs, cutoff) == {NoKey}

\* The keys min_by_key may return (the map's iteration order breaks ties).
EvictCandidates(reqs, cutoff) ==
    {k \in DOMAIN reqs :
        \A o \in DOMAIN reqs : EvictRank(reqs, k, cutoff) <= EvictRank(reqs, o, cutoff)}

\* if self.limit_per_window == 0 { return true; }
ZeroLimitIgnored == FALSE
ZeroLimit == limit_per_window = 0

\* entry.len() >= limit_per_window: the request is refused.
OverLimitOffByOne(entry) == Len(entry) > limit_per_window
OverLimit(entry) == Len(entry) >= limit_per_window

\* The state of the map before the entry of the key is looked at: the
\* periodic sweep, then under cardinality pressure the opportunistic sweep
\* and the eviction of key ev (NoKey: nothing to evict).
AfterSweeps(key, now, ev) ==
    LET cutoff == Cutoff(now)
        periodic == clock - last_sweep >= RATE_LIMITER_SWEEP_INTERVAL
        r1 == IF periodic THEN prune_stale(requests, cutoff) ELSE requests
        pressure == key \notin DOMAIN r1 /\ Cardinality(DOMAIN r1) >= max_keys
        r2 == IF pressure THEN prune_stale(r1, cutoff) ELSE r1
        evict == pressure /\ Cardinality(DOMAIN r2) >= max_keys
    IN [map |-> IF evict THEN Without(r2, {ev}) ELSE r2,
        swept |-> periodic \/ pressure,
        evict |-> evict,
        candidates |-> IF evict THEN EvictCandidates(r2, cutoff) ELSE {NoKey}]

\* The run of calls of TrackedKey after a call on key at time now with
\* result res in which the keys of the set evicted were evicted.
RunAfterCall(key, now, res, evicted) ==
    IF limit_per_window = 0 THEN lim_run
    ELSE IF key = TrackedKey
    THEN IF lim_run.count = 0 \/ now - lim_run.last >= RATE_LIMIT_WINDOW
         THEN [start |-> now, last |-> now, count |-> 1, evicted |-> FALSE,
               res |-> res]
         ELSE [lim_run EXCEPT !.last = now, !.res = res,
                              !.count = Min(@ + 1, limit_per_window + 1)]
    ELSE IF TrackedKey \in evicted THEN [lim_run EXCEPT !.evicted = TRUE]
         ELSE lim_run

\* The decision of allow(key) at time now when ev is the key to evict.
AllowDecision(key, now, ev) ==
    LET s == AfterSweeps(key, now, ev)
        entry == IF key \in DOMAIN s.map
                 THEN Retain(s.map[key], Cutoff(now)) ELSE << >>
        res == ZeroLimit \/ ~OverLimit(entry)
    IN [res |-> res,
        candidates |-> IF ZeroLimit THEN {NoKey} ELSE s.candidates,
        map |-> IF ZeroLimit THEN requests
                ELSE With(s.map, key, IF res THEN Append(entry, now) ELSE entry),
        sweep |-> IF ~ZeroLimit /\ s.swept THEN now ELSE last_sweep]

NoRun == [start |-> 0, last |-> 0, count |-> 0, evicted |-> FALSE, res |-> TRUE]

\* Time passes.
LimiterTick ==
    /\ clock < MaxClock
    /\ clock' = clock + 1
    /\ UNCHANGED << requests, last_sweep, limit_per_window, max_keys, lim_run,
                    lim_calls, lim_obs >>

\* Threads are interchangeable: a call takes the first free one.  A thread
\* waits for the mutex for at most MaxLag ticks.
Threads == {1, 2}
MaxLag == 1
NoCall == [key |-> NoKey, now |-> 0]
\* The keys other than TrackedKey are interchangeable: "c" comes after "b".
NextKeys ==
    LET called == DOMAIN requests \cup {lim_calls[t].key : t \in Threads}
    IN {TrackedKey, "b"} \cup (IF "b" \in called THEN {"c"} ELSE {})
FirstFree(t) == lim_calls[t] = NoCall /\ \A u \in Threads : u < t => lim_calls[u] # NoCall

\* The limiter's code for one key alone: the periodic sweep, the entry's
\* retain, the decision and the push.  sh is [ts, sweep], at the clock
\* reading of last_sweep.elapsed().
AllowAlone(sh, now, at) ==
    LET cutoff == Cutoff(now)
        periodic == at - sh.sweep >= RATE_LIMITER_SWEEP_INTERVAL
        entry == Retain(sh.ts, cutoff)
        res == ~OverLimit(entry)
    IN [res |-> res,
        ts |-> IF res THEN Append(entry, now) ELSE entry,
        sweep |-> IF periodic THEN now ELSE sh.sweep]

\* The number of admitted calls on TrackedKey, of those the history h
\* holds, with a clock reading later than now - window (at most the limit
\* is counted per clock reading).
AdmittedSince(h, now) ==
    LET later == {t \in DOMAIN h.admitted : t > now - RATE_LIMIT_WINDOW}
        Sum[T \in SUBSET later] ==
            IF T = {} THEN 0
            ELSE LET t == CHOOSE x \in T : TRUE
                 IN h.admitted[t] + Sum[T \ {t}]
    IN Sum[later]

\* The history of the calls on TrackedKey after a call on key: the admitted
\* calls per clock reading (those no later call can count are dropped),
\* the latest call's clock reading and the number of admitted calls in its
\* window before it, its result and whether the call before it was refused.
HistoryAfter(h, key, now, res) ==
    IF ~h.on \/ key # TrackedKey THEN h
    ELSE [on |-> TRUE,
          admitted |->
              LET kept == Without(h.admitted,
                                  {t \in DOMAIN h.admitted :
                                      t < now - RATE_LIMIT_WINDOW - MaxLag})
              IN IF res THEN With(kept, now,
                                  IF now \in DOMAIN kept
                                  THEN Min(kept[now] + 1, Max(limit_per_window, 1))
                                  ELSE 1)
                 ELSE kept,
          now |-> now,
          before |-> AdmittedSince(h, now),
          res |-> res,
          denied |-> ~h.res]

\* What is known after a call on key with result res that evicted key ev.
Observe(key, now, res, ev) ==
    IF ~lim_obs.compare
    THEN [lim_obs EXCEPT !.key = key, !.res = res, !.evicted = ev,
                         !.hist = HistoryAfter(@, key, now, res)]
    ELSE [key |-> key, res |-> res, evicted |-> ev, compare |-> TRUE,
          hist |-> HistoryAfter(lim_obs.hist, key, now, res),
          seen |-> lim_obs.seen \cup {key},
          alone |-> IF key = TrackedKey /\ limit_per_window # 0
                    THEN AllowAlone(lim_obs.alone, now, clock)
                    ELSE lim_obs.alone]

\* SlidingWindowRateLimiter::allow
allow(key) ==
    \E ev \in Keys \cup {NoKey} :
        LET d == AllowDecision(key, clock, ev)
        IN /\ ev \in d.candidates
           /\ requests' = d.map
           /\ last_sweep' = d.sweep
           /\ lim_run' = RunAfterCall(key, clock, d.res,
                                      IF ev = NoKey THEN {} ELSE {ev})
           /\ lim_obs' = Observe(key, clock, d.res, ev)
           /\ UNCHANGED << clock, limit_per_window, max_keys, lim_calls >>

\* allow, up to the mutex: with limit 0 it returns true at once, else it
\* reads the clock and asks for the mutex.
allow_now(t, key) ==
    /\ FirstFree(t)
    /\ key \in NextKeys
    /\ IF ZeroLimit
       THEN /\ lim_obs' = Observe(key, clock, TRUE, NoKey)
            /\ UNCHANGED lim_calls
       ELSE /\ lim_calls' = [lim_calls EXCEPT ![t] = [key |-> key, now |-> clock]]
            /\ UNCHANGED lim_obs
    /\ UNCHANGED << clock, requests, last_sweep, limit_per_window, max_keys, lim_run >>

\* allow, under the mutex: the body with the clock reading made earlier.
allow_locked(t) ==
    /\ lim_calls[t] # NoCall
    /\ \E ev \in Keys \cup {NoKey} :
        LET c == lim_calls[t]
            d == AllowDecision(c.key, c.now, ev)
        IN /\ ev \in d.candidates
           /\ requests' = d.map
           /\ last_sweep' = d.sweep
           /\ lim_obs' = Observe(c.key, c.now, d.res, ev)
    /\ lim_calls' = [lim_calls EXCEPT ![t] = NoCall]
    /\ UNCHANGED << clock, limit_per_window, max_keys, lim_run >>

\* Nothing observed yet; the second limiter is kept only where compare is set.
NoHistory ==
    [on |-> FALSE, admitted |-> << >>, now |-> 0, before |-> 0, res |-> TRUE,
     denied |-> FALSE]
NoObs(t0) ==
    [key |-> NoKey, res |-> TRUE, evicted |-> NoKey, compare |-> FALSE, seen |-> {},
     hist |-> NoHistory,
     alone |-> [res |-> TRUE, ts |-> << >>, sweep |-> t0]]

\* SlidingWindowRateLimiter::new, at any clock reading.
LimiterInit ==
    /\ clock \in {0, RATE_LIMIT_WINDOW}
    /\ requests = << >>
    /\ last_sweep = clock
    /\ limit_per_window \in 0..MaxLimit
    /\ max_keys \in {ClampMaxKeys(c) : c \in 0..MaxKeysConfig}
    /\ lim_run = NoRun
    /\ lim_calls = [t \in Threads |-> NoCall]
    /\ lim_obs = NoObs(clock)

LimiterIdle ==
    /\ clock = 0
    /\ requests = << >>
    /\ last_sweep = 0
    /\ limit_per_window = 0
    /\ max_keys = 1
    /\ lim_run = NoRun
    /\ lim_calls = [t \in Threads |-> NoCall]
    /\ lim_obs = NoObs(0)

LimiterNext ==
    \/ \E k \in Keys : allow(k)
    \/ LimiterTick

\* Calls from several threads.
LimiterThreadsTick ==
    /\ \A t \in Threads : lim_calls[t] = NoCall \/ clock - lim_calls[t].now < MaxLag
    /\ LimiterTick

LimiterThreadsNext ==
    \/ \E t \in Threads, k \in Keys : allow_now(t, k)
    \/ \E t \in Threads : allow_locked(t)
    \/ LimiterThreadsTick

(***************************************************************************)
(* Idempotency memory (IdempotencyStore); it reads the same clock.         *)
(*   idem_keys      the map key -> time the key was recorded               *)
(*   idem_max_keys  the capacity, clamped to at least 1                    *)
(*   idem_last      the latest record_if_new call: key, time, result       *)
(*   idem_mark      for TrackedKey: the time of the latest call that       *)
(*                  returned true before the latest call (-1: none), and   *)
(*                  whether the key was evicted for capacity since then    *)
(*                  (history)                                              *)
(*   idem_inserted  for each stored key, the time at which it was          *)
(*                  inserted into the map (history)                        *)
(*   idem_calls     per thread, the record_if_new call that has read the   *)
(*                  clock and waits for the mutex (NoCall: none)           *)
(***************************************************************************)
VARIABLES idem_keys, idem_max_keys, idem_last, idem_mark, idem_inserted, idem_calls

idemVars == << idem_keys, idem_max_keys, idem_last, idem_mark, idem_inserted, idem_calls >>

\* The time to live of a key, in ticks.
IDEMPOTENCY_TTL == 2

\* keys.retain(|_, seen_at| now.duration_since(*seen_at) < self.ttl);
\* duration_since is zero when seen_at is later than now.
IsFreshEarly(now, seen_at) == now - seen_at < IDEMPOTENCY_TTL - 1
IsFreshLate(now, seen_at) == now - seen_at <= IDEMPOTENCY_TTL
IsFresh(now, seen_at) == Max(now - seen_at, 0) < IDEMPOTENCY_TTL

RetainFresh(keys, now) ==
    [k \in {x \in DOMAIN keys : IsFresh(now, keys[x])} |-> keys[k]]

\* min_by_key(|(_, seen_at)| *seen_at): the keys it may return.
OldestKeysNone(keys) == {NoKey}
OldestKeys(keys) == {k \in DOMAIN keys : \A o \in DOMAIN keys : keys[k] <= keys[o]}

\* IdempotencyStore::record_if_new with the key ev evicted (NoKey: none):
\* the map after the call and the result.
RecordIfNew(keys, key, now, ev) ==
    LET kept == RetainFresh(keys, now)
        full == Cardinality(DOMAIN kept) >= idem_max_keys
    IN IF key \in DOMAIN kept
       THEN [map |-> kept, res |-> FALSE, candidates |-> {NoKey}]
       ELSE [map |-> With(IF full THEN Without(kept, {ev}) ELSE kept, key, now),
             res |-> TRUE,
             candidates |-> IF full THEN OldestKeys(kept) ELSE {NoKey}]

\* The times of insertion of the stored keys after record_if_new on key,
\* which read the clock at now and runs at the time at, with ev evicted.
InsertedAfterCall(inserted, keys, key, now, ev, at) ==
    LET r == RecordIfNew(keys, key, now, ev)
    IN [k \in DOMAIN r.map |-> IF k = key /\ r.res THEN at ELSE inserted[k]]

\* The history of TrackedKey after a call on key with result res.
MarkAfterCall(key, now, res, ev) ==
    LET since == IF idem_last.key = TrackedKey /\ idem_last.res
                 THEN [at |-> idem_last.at, evicted |-> FALSE]
                 ELSE idem_mark
    IN IF ev = TrackedKey THEN [since EXCEPT !.evicted = TRUE] ELSE since

\* IdempotencyStore::record_if_new
record_if_new(key) ==
    \E ev \in Keys \cup {NoKey} :
        LET now == clock
            r == RecordIfNew(idem_keys, key, now, ev)
        IN /\ ev \in r.candidates
           /\ idem_keys' = r.map
           /\ idem_mark' = MarkAfterCall(key, now, r.res, ev)
           /\ idem_last' = [key |-> key, at |-> now, res |-> r.res, evicted |-> ev]
           /\ idem_inserted' = InsertedAfterCall(idem_inserted, idem_keys, key, now, ev, clock)
           /\ UNCHANGED << idem_max_keys, idem_calls, clock >>

\* The keys a thread may call with: "c" is used only once "b" is (the two
\* are interchangeable).
IdemNextKeys ==
    LET called == DOMAIN idem_keys \cup {idem_calls[t].key : t \in Threads}
    IN {TrackedKey, "b"} \cup (IF "b" \in called THEN {"c"} ELSE {})

\* IdempotencyStore::record_if_new, first statement: thread t reads the clock
\* (`let now = Instant::now()`), then waits for the mutex.
record_if_new_now(t, key) ==
    /\ idem_calls[t] = NoCall
    /\ \A u \in Threads : u < t => idem_calls[u] # NoCall
    /\ key \in IdemNextKeys
    /\ idem_calls' = [idem_calls EXCEPT ![t] = [key |-> key, now |-> clock]]
    /\ UNCHANGED << idem_keys, idem_max_keys, idem_last, idem_mark, idem_inserted, clock >>

\* IdempotencyStore::record_if_new, the rest: thread t holds the mutex from
\* `self.keys.lock()` to the return.
record_if_new_locked(t) ==
    \E ev \in Keys \cup {NoKey} :
        LET c == idem_calls[t]
            r == RecordIfNew(idem_keys, c.key, c.now, ev)
        IN /\ c # NoCall
           /\ ev \in r.candidates
           /\ idem_keys' = r.map
           /\ idem_mark' = MarkAfterCall(c.key, c.now, r.res, ev)
           /\ idem_last' = [key |-> c.key, at |-> c.now, res |-> r.res, evicted |-> ev]
           /\ idem_inserted' = InsertedAfterCall(idem_inserted, idem_keys, c.key, c.now, ev, clock)
           /\ idem_calls' = [idem_calls EXCEPT ![t] = NoCall]
           /\ UNCHANGED << idem_max_keys, clock >>

\* Time passes.
IdemTick ==
    /\ clock < MaxClock
    /\ clock' = clock + 1
    /\ UNCHANGED << idem_keys, idem_max_keys, idem_last, idem_mark, idem_inserted, idem_calls >>

\* Time passes while threads call; a thread waits for the mutex for at most
\* MaxLag ticks.
IdemThreadsTick ==
    /\ \A t \in Threads : idem_calls[t] = NoCall \/ clock - idem_calls[t].now < MaxLag
    /\ IdemTick

\* IdempotencyStore::new: max_keys.max(1)
IdemInit ==
    /\ idem_keys = << >>
    /\ idem_max_keys \in {ClampMaxKeys(c) : c \in 0..MaxKeysConfig}
    /\ idem_last = [key |-> NoKey, at |-> 0, res |-> FALSE, evicted |-> NoKey]
    /\ idem_mark = [at |-> -1, evicted |-> FALSE]
    /\ idem_inserted = << >>
    /\ idem_calls = [t \in Threads |-> NoCall]

IdemIdle ==
    /\ idem_keys = << >>
    /\ idem_max_keys = 1
    /\ idem_last = [key |-> NoKey, at |-> 0, res |-> FALSE, evicted |-> NoKey]
    /\ idem_mark = [at |-> -1, evicted |-> FALSE]
    /\ idem_inserted = << >>
    /\ idem_calls = [t \in Threads |-> NoCall]

IdemNext ==
    \/ \E k \in Keys : record_if_new(k)
    \/ IdemTick

IdemThreadsNext ==
    \/ \E t \in Threads, k \in Keys : record_if_new_now(t, k)
    \/ \E t \in Threads : record_if_new_locked(t)
    \/ IdemThreadsTick

(***************************************************************************)
(* Pairing guard (PairingGuard) and POST /webhook (handle_webhook)         *)
(*   require_pairing      the guard's configuration                        *)
(*   guard_tokens         the guard's set of bearer tokens                 *)
(*   pairing_code         the guard's one-time code (NoCode: none)         *)
(*   codes_made           the number of codes generated so far             *)
(*   failures_by_key      the guard's count of failed pairing attempts     *)
(*   webhook_secret_hash  the hash of the configured secret (NoHash: none) *)
(*   web                  the /webhook requests: position in the handler,  *)
(*                        headers and body, response, and for the          *)
(*                        idempotency step its time, its rank among the    *)
(*                        record_if_new calls, its result and whether the  *)
(*                        key it recorded was evicted since (history)      *)
(*   idem_seq             the number of record_if_new calls so far         *)
(* The handlers run on a multi-threaded runtime: a step is one access to   *)
(* a mutex-guarded structure together with the local work that follows.    *)
(***************************************************************************)
VARIABLES require_pairing, guard_tokens, pairing_code, codes_made,
          failures_by_key, webhook_secret_hash, web, idem_seq

guardVars == << require_pairing, guard_tokens, pairing_code, codes_made,
               failures_by_key >>

\* The failure count is followed up to MaxPairFailures.
MaxPairFailures == 2

\* try_pair on a mismatch: increment failure counter.
RecordFailure == Min(failures_by_key + 1, MaxPairFailures)
webVars == << webhook_secret_hash, web, idem_seq >>

Token(n) == << "token", n >>
Code(n) == << "code", n >>
NoToken == << >>
NoCode == << >>
NoHash == << >>
NoHeader == "<absent>"

\* str::trim on the header values of the model.
Trim(s) ==
    CASE s = " s3 " -> "s3"
      [] s = " a " -> "a"
      [] s = " " -> ""
      [] OTHER -> s

\* headers.get(..).and_then(to_str).map(str::trim).filter(|v| !v.is_empty())
TrimmedHeader(h) == IF h = NoHeader \/ Trim(h) = "" THEN NoHeader ELSE Trim(h)

\* hash_webhook_secret: SHA-256 in hex, one digest per input.
hash_webhook_secret(value) == << "sha256", value >>

constant_time_eq(a, b) == a = b

\* auth.strip_prefix("Bearer ").unwrap_or(""), the header absent being "".
BearerToken(auth) ==
    IF Len(auth) = 2 /\ auth[1] = "Bearer" THEN auth[2] ELSE NoToken

\* PairingGuard::is_authenticated: membership in the token set.
is_authenticated(token) == token \in guard_tokens

\* The bearer check of handle_webhook and of pairing_auth_error.
BearerOk(auth) == ~require_pairing \/ is_authenticated(BearerToken(auth))

\* The X-Webhook-Secret check of handle_webhook.
SecretHeaderOkMissingAllowed(h) ==
    \/ webhook_secret_hash = NoHash
    \/ TrimmedHeader(h) = NoHeader
    \/ constant_time_eq(hash_webhook_secret(TrimmedHeader(h)), webhook_secret_hash)
SecretHeaderOk(h) ==
    \/ webhook_secret_hash = NoHash
    \/ /\ TrimmedHeader(h) # NoHeader
       /\ constant_time_eq(hash_webhook_secret(TrimmedHeader(h)), webhook_secret_hash)

Reqs == {1, 2, 3}

NewRequest ==
    [pc |-> "new", client |-> NoKey, auth |-> << >>, secret |-> NoHeader,
     body |-> TRUE, idem |-> NoHeader, status |-> 0, reply |-> "none",
     invoked |-> FALSE, at |-> 0, seq |-> 0, isNew |-> FALSE, evicted |-> FALSE,
     fields |-> {}, failedAt |-> 0]

\* The fields of a response's JSON object, were the provider's failure
\* answered without one.
JsonBodyBareFailure(code, reply) ==
    CASE reply = "error" /\ code = 429 -> {"error", "retry_after"}
      [] reply = "error" /\ code = 500 -> {}
      [] reply = "error" -> {"error"}
      [] reply = "duplicate" -> {"status", "idempotent", "message"}
      [] reply = "response" -> {"response", "model"}

\* The fields of the JSON object handle_webhook answers with.
JsonBody(code, reply) ==
    CASE reply = "error" /\ code = 429 -> {"error", "retry_after"}
      [] reply = "error" -> {"error"}
      [] reply = "duplicate" -> {"status", "idempotent", "message"}
      [] reply = "response" -> {"response", "model"}

Respond(q, code, reply) ==
    [q EXCEPT !.pc = "done", !.status = code, !.reply = reply,
              !.fields = JsonBody(code, reply)]

\* handle_webhook: the request arrives, the client key is derived and the
\* webhook limiter is asked; 429 when it refuses.
handle_webhook(r, client, auth, secret, body, idem) ==
    /\ web[r].pc = "new"
    /\ \A q \in Reqs : q < r => web[q].pc # "new"
    /\ \E ev \in Keys \cup {NoKey} :
          LET d == AllowDecision(client, clock, ev)
              req == [NewRequest EXCEPT !.client = client, !.auth = auth,
                                        !.secret = secret, !.body = body,
                                        !.idem = idem]
          IN /\ ev \in d.candidates
             /\ requests' = d.map
             /\ last_sweep' = d.sweep
             /\ web' = [web EXCEPT ![r] = IF d.res THEN [req EXCEPT !.pc = "auth"]
                                          ELSE Respond(req, 429, "error")]
    /\ UNCHANGED << clock, limit_per_window, max_keys, lim_run, lim_calls, lim_obs,
                    idemVars,
                    guardVars, webhook_secret_hash, idem_seq >>

\* The checks of handle_webhook, were the idempotency key recorded before
\* the credentials and the body are looked at.
webhook_auth_recording(r) ==
    LET q == web[r]
        key == TrimmedHeader(q.idem)
    IN /\ q.pc = "auth"
       /\ web' = [web EXCEPT ![r] =
                    IF ~BearerOk(q.auth) THEN Respond(q, 401, "error")
                    ELSE IF ~SecretHeaderOk(q.secret) THEN Respond(q, 401, "error")
                    ELSE IF ~q.body THEN Respond(q, 400, "error")
                    ELSE [q EXCEPT !.pc = "idem"]]
       /\ idem_keys' = IF key = NoHeader THEN idem_keys ELSE With(idem_keys, key, clock)
       /\ UNCHANGED << limiterVars, idem_max_keys, idem_last, idem_mark,
                       idem_inserted, idem_calls, guardVars, webhook_secret_hash,
                       idem_seq >>

\* handle_webhook: bearer check, webhook secret check, body parsing.
webhook_auth(r) ==
    LET q == web[r]
    IN /\ q.pc = "auth"
       /\ web' = [web EXCEPT ![r] =
                    IF ~BearerOk(q.auth) THEN Respond(q, 401, "error")
                    ELSE IF ~SecretHeaderOk(q.secret) THEN Respond(q, 401, "error")
                    ELSE IF ~q.body THEN Respond(q, 400, "error")
                    ELSE [q EXCEPT !.pc = "idem"]]
       /\ UNCHANGED << limiterVars, idemVars, guardVars, webhook_secret_hash,
                       idem_seq >>

\* The idempotency step without the store: every request goes on.
webhook_idempotency_skipped(r) ==
    LET q == web[r]
    IN /\ q.pc = "idem"
       /\ web' = [web EXCEPT ![r] =
                    [q EXCEPT !.pc = "provider", !.at = clock,
                              !.seq = idem_seq + 1,
                              !.isNew = TrimmedHeader(q.idem) # NoHeader]]
       /\ idem_seq' = idem_seq + 1
       /\ UNCHANGED << limiterVars, idemVars, guardVars, webhook_secret_hash >>

\* handle_webhook: the idempotency step; 200 duplicate when the key is known.
webhook_idempotency(r) ==
    LET q == web[r]
        key == TrimmedHeader(q.idem)
    IN /\ q.pc = "idem"
       /\ IF key = NoHeader
          THEN /\ web' = [web EXCEPT ![r] = [q EXCEPT !.pc = "provider"]]
               /\ UNCHANGED << idem_keys, idem_inserted, idem_seq >>
          ELSE \E ev \in Keys \cup {NoKey} :
                  LET n == RecordIfNew(idem_keys, key, clock, ev)
                      mine == [q EXCEPT !.at = clock, !.seq = idem_seq + 1,
                                        !.isNew = n.res]
                  IN /\ ev \in n.candidates
                     /\ idem_keys' = n.map
                     /\ idem_inserted' = InsertedAfterCall(idem_inserted, idem_keys, key, clock, ev, clock)
                     /\ idem_seq' = idem_seq + 1
                     /\ web' = [x \in Reqs |->
                                  IF x = r
                                  THEN IF n.res THEN [mine EXCEPT !.pc = "provider"]
                                       ELSE Respond(mine, 200, "duplicate")
                                  ELSE IF /\ ev # NoKey
                                          /\ web[x].isNew
                                          /\ TrimmedHeader(web[x].idem) = ev
                                       THEN [web[x] EXCEPT !.evicted = TRUE]
                                       ELSE web[x]]
       /\ UNCHANGED << limiterVars, idem_max_keys, idem_last, idem_mark, idem_calls,
                       guardVars, webhook_secret_hash >>

\* The provider step, were the idempotency key taken back when the provider
\* fails.
run_gateway_chat_simple_forgetting(r, o) ==
    LET q == [web[r] EXCEPT !.invoked = TRUE,
                            !.failedAt = IF o = "ok" THEN 0 ELSE idem_seq]
    IN /\ web[r].pc = "provider"
       /\ web' = [web EXCEPT ![r] = IF o = "ok" THEN Respond(q, 200, "response")
                                    ELSE Respond(q, 500, "error")]
       /\ idem_keys' = IF o = "ok" THEN idem_keys
                       ELSE Without(idem_keys, {TrimmedHeader(q.idem)})
       /\ UNCHANGED << limiterVars, idem_max_keys, idem_last, idem_mark,
                       idem_inserted, idem_calls, guardVars, webhook_secret_hash,
                       idem_seq >>

\* handle_webhook: run_gateway_chat_simple calls the provider; 200 with the
\* response or 500.
run_gateway_chat_simple(r, o) ==
    LET q == [web[r] EXCEPT !.invoked = TRUE,
                            !.failedAt = IF o = "ok" THEN 0 ELSE idem_seq]
    IN /\ web[r].pc = "provider"
       /\ web' = [web EXCEPT ![r] = IF o = "ok" THEN Respond(q, 200, "response")
                                    ELSE Respond(q, 500, "error")]
       /\ UNCHANGED << limiterVars, idemVars, guardVars, webhook_secret_hash,
                       idem_seq >>

\* Time passes while requests are handled.
WebhookTick ==
    /\ clock < IDEMPOTENCY_TTL
    /\ clock' = clock + 1
    /\ UNCHANGED << requests, last_sweep, limit_per_window, max_keys, lim_run,
                    lim_calls, lim_obs,
                    idemVars, guardVars, webVars >>

AuthHeaders == {<< >>, << "Bearer", Token(1) >>, << "Bearer", Token(9) >>,
                << "Basic", Token(1) >>}
SecretHeaders == {NoHeader, "s3", " s3 ", "bad"}
IdemHeaders == {NoHeader, " ", "a", " a ", "b"}

GuardIdle ==
    /\ require_pairing = FALSE
    /\ guard_tokens = {}
    /\ pairing_code = NoCode
    /\ codes_made = 0
    /\ failures_by_key = 0

WebIdle ==
    /\ webhook_secret_hash = NoHash
    /\ web = [r \in Reqs |-> NewRequest]
    /\ idem_seq = 0

(***************************************************************************)
(* POST /pair and POST /pair/new-code (handle_pair, persist_pairing_tokens)*)
(*   cfg_mem   gateway.paired_tokens of the shared in-memory config         *)
(*   cfg_file  gateway.paired_tokens of the config file                    *)
(*   pair      the /pair requests: position in the handler, the code sent, *)
(*             the token minted, the token list being persisted, response  *)
(***************************************************************************)
VARIABLES cfg_mem, cfg_file, pair

pairVars == << cfg_mem, cfg_file, pair >>

MaxCodes == 2

PairReqs == {1, 2}

NewPair ==
    [pc |-> "new", code |-> NoCode, token |-> NoToken, snapshot |-> {},
     status |-> 0, persisted |-> FALSE, tried |-> FALSE]

PairRespond(q, code) == [q EXCEPT !.pc = "done", !.status = code]

\* handle_pair: the request arrives and the pair limiter (a limiter of its
\* own, whose decision is an input here) is asked; 429 when it refuses.
handle_pair(p, code, allowed) ==
    /\ pair[p].pc = "new"
    /\ \A q \in PairReqs : q < p => pair[q].pc # "new"
    /\ pair' = [pair EXCEPT ![p] =
                  IF allowed THEN [NewPair EXCEPT !.pc = "try", !.code = code]
                  ELSE PairRespond([NewPair EXCEPT !.code = code], 429)]
    /\ UNCHANGED << guardVars, cfg_mem, cfg_file >>

\* PairingGuard::try_pair: a lockout answers 429, a wrong code 403; the
\* right code is consumed and a fresh token joins the guard's set.
try_pair(p, locked) ==
    LET q == [pair[p] EXCEPT !.tried = TRUE]
        minted == Token(Cardinality(guard_tokens) + 1)
    IN /\ q.pc = "try"
       /\ IF locked
          THEN /\ pair' = [pair EXCEPT ![p] = PairRespond(q, 429)]
               /\ UNCHANGED << guard_tokens, pairing_code, failures_by_key >>
          ELSE IF pairing_code # NoCode /\ constant_time_eq(q.code, pairing_code)
          THEN /\ guard_tokens' = guard_tokens \cup {minted}
               /\ pairing_code' = NoCode
               /\ pair' = [pair EXCEPT ![p] = [q EXCEPT !.pc = "persist",
                                                        !.token = minted]]
               /\ UNCHANGED failures_by_key
          ELSE /\ pair' = [pair EXCEPT ![p] = PairRespond(q, 403)]
               /\ failures_by_key' = RecordFailure
               /\ UNCHANGED << guard_tokens, pairing_code >>
       /\ UNCHANGED << require_pairing, codes_made, cfg_mem, cfg_file >>

\* persist_pairing_tokens: pairing.tokens() and the clone of the config.
persist_pairing_tokens(p) ==
    /\ pair[p].pc = "persist"
    /\ pair' = [pair EXCEPT ![p] = [@ EXCEPT !.pc = "save",
                                             !.snapshot = guard_tokens]]
    /\ UNCHANGED << guardVars, cfg_mem, cfg_file >>

\* persist_pairing_tokens: updated_cfg.save().await; on failure the handler
\* answers 200 with persisted: false.
Config_save(p, o) ==
    /\ pair[p].pc = "save"
    /\ IF o = "ok"
       THEN /\ cfg_file' = pair[p].snapshot
            /\ pair' = [pair EXCEPT ![p] = [@ EXCEPT !.pc = "commit"]]
       ELSE /\ pair' = [pair EXCEPT ![p] = PairRespond(@, 200)]
            /\ UNCHANGED cfg_file
    /\ UNCHANGED << guardVars, cfg_mem >>

\* persist_pairing_tokens: *config.lock() = updated_cfg; 200, persisted: true.
persist_pairing_tokens_commit(p) ==
    /\ pair[p].pc = "commit"
    /\ cfg_mem' = pair[p].snapshot
    /\ pair' = [pair EXCEPT ![p] = [PairRespond(@, 200) EXCEPT !.persisted = TRUE]]
    /\ UNCHANGED << guardVars, cfg_file >>

\* The tokens a client can send: those not still on their way to the client
\* in the response of a /pair request.
TokensInFlight == {pair[p].token : p \in {q \in PairReqs : pair[q].pc # "done"}}

\* handle_pair_new_code: with a valid bearer token, regenerate_pairing_code.
handle_pair_new_code(auth) ==
    /\ BearerToken(auth) \notin TokensInFlight
    /\ require_pairing
    /\ is_authenticated(BearerToken(auth))
    /\ codes_made < MaxCodes
    /\ pairing_code' = Code(codes_made + 1)
    /\ codes_made' = codes_made + 1
    /\ UNCHANGED << require_pairing, guard_tokens, failures_by_key, pairVars >>

PairIdle ==
    /\ cfg_mem = {}
    /\ cfg_file = {}
    /\ pair = [p \in PairReqs |-> NewPair]

PairNext ==
    \/ \E p \in PairReqs, c \in {Code(n) : n \in 0..MaxCodes}, a \in BOOLEAN :
          handle_pair(p, c, a)
    \/ \E p \in PairReqs, l \in BOOLEAN : try_pair(p, l)
    \/ \E p \in PairReqs : persist_pairing_tokens(p)
    \/ \E p \in PairReqs, o \in Outcomes : Config_save(p, o)
    \/ \E p \in PairReqs : persist_pairing_tokens_commit(p)
    \/ \E a \in AuthHeaders : handle_pair_new_code(a)

(***************************************************************************)
(* Workspace path resolvers and the handlers that use them                 *)
(*   fs       the file system: path (sequence of names) -> node            *)
(*   fs_pc    "idle", or "done" when fs_req holds a handled request        *)
(*   fs_req   the request handled last: endpoint, requested path, what     *)
(*            the path designated, what the resolver returned, the place   *)
(*            that was streamed, read or written, and the status           *)
(*   saves    the number of save-text requests so far                      *)
(***************************************************************************)
VARIABLES fs, fs_pc, fs_req, saves

pathVars == << fs, fs_pc, fs_req, saves >>

MaxUps == 3
MaxSaves == 1

Workspace == << "ws" >>
AllowedRoots == {"journals", "memory", "state", "posts", "outputs", "artifacts"}
PathNames == {"journals", "missing", "out", "link", "x"}

NoPath == << "<none>" >>
NotFound == << "<enoent>" >>
NotDir == << "<enotdir>" >>
Failed(p) == p \in {NoPath, NotFound, NotDir}

Node(kind, target) == [kind |-> kind, target |-> target]

FsOf(dirs, files, links) ==
    [p \in dirs \cup files \cup {l[1] : l \in links} |->
        IF p \in dirs THEN Node("dir", << >>)
        ELSE IF p \in files THEN Node("file", << >>)
        ELSE Node("symlink", (CHOOSE l \in links : l[1] = p)[2])]

BaseDirs == {<< >>, << "ws" >>, << "ws", "journals" >>, << "outside" >>}
BaseFiles == {<< "ws", "journals", "x" >>, << "outside", "x" >>}
BaseLinks == {<< << "ws", "journals", "link" >>, << "outside", "x" >> >>,
              << << "ws", "journals", "out" >>, << "outside" >> >>}

IsDir(f, p) == p \in DOMAIN f /\ f[p].kind = "dir"

\* The parent directory as the kernel sees it (the root is its own parent).
Parent(p) == IF p = << >> THEN << >> ELSE SubSeq(p, 1, Len(p) - 1)

\* Path resolution by the kernel from directory here: symbolic links are
\* followed, ".." is the parent of the directory reached, a missing
\* component fails (unless it is the last one and the call creates it).
RECURSIVE Walk(_, _, _, _)
Walk(f, here, rest, create) ==
    IF rest = << >> THEN here
    ELSE IF ~IsDir(f, here) THEN NotDir
    ELSE LET c == Head(rest)
             t == Tail(rest)
             nxt == Append(here, c)
         IN IF c = ".." THEN Walk(f, Parent(here), t, create)
            ELSE IF nxt \notin DOMAIN f
                 THEN IF t = << >> /\ create THEN nxt ELSE NotFound
            ELSE IF f[nxt].kind = "symlink" THEN Walk(f, f[nxt].target, t, create)
            ELSE Walk(f, nxt, t, create)

\* Path::canonicalize: every component must exist.
canonicalize(f, p) == Walk(f, << >>, p, FALSE)

\* Path::starts_with and Path::parent compare and cut components as written.
StartsWith(p, base) == Len(base) <= Len(p) /\ SubSeq(p, 1, Len(base)) = base
LexicalParent(p) == SubSeq(p, 1, Len(p) - 1)

resolve_workspace_media_path(f, requested) ==
    IF requested = << >> THEN NoPath
    ELSE LET resolved == canonicalize(f, Workspace \o requested)
         IN IF Failed(resolved) THEN NoPath
            ELSE IF ~StartsWith(resolved, Workspace) THEN NoPath
            ELSE IF ~StartsWith(resolved, Workspace \o << "journals" >>) THEN NoPath
            ELSE resolved

resolve_workspace_text_path(f, requested) ==
    IF requested = << >> THEN NoPath
    ELSE LET candidate == Workspace \o requested
             parent == LexicalParent(candidate)
             parent_resolved == IF Failed(canonicalize(f, parent)) THEN parent
                                ELSE canonicalize(f, parent)
             rel_parent == SubSeq(parent_resolved, Len(Workspace) + 1,
                                  Len(parent_resolved))
         IN IF ~StartsWith(parent_resolved, Workspace) THEN NoPath
            ELSE IF rel_parent = << >> THEN NoPath
            ELSE IF Head(rel_parent) \notin AllowedRoots THEN NoPath
            ELSE candidate

\* mkdir(2): the parent must resolve to a directory and the name be free.
mkdir(f, p) ==
    LET dir == Walk(f, << >>, LexicalParent(p), FALSE)
        name == p[Len(p)]
    IN IF dir = NotFound THEN [err |-> "notfound", fs |-> f]
       ELSE IF Failed(dir) \/ ~IsDir(f, dir) THEN [err |-> "notdir", fs |-> f]
       ELSE IF name = ".." \/ Append(dir, name) \in DOMAIN f
            THEN [err |-> "exists", fs |-> f]
       ELSE [err |-> "ok", fs |-> With(f, Append(dir, name), Node("dir", << >>))]

\* Path::is_dir
is_dir(f, p) == IsDir(f, Walk(f, << >>, p, FALSE))

\* fs::create_dir_all(parent) as handle_library_save_text calls it: mkdir,
\* on NotFound first the parent (as written) and then mkdir again.
RECURSIVE create_dir_all(_, _)
create_dir_all(f, p) ==
    IF p = << >> THEN [ok |-> TRUE, fs |-> f]
    ELSE LET m == mkdir(f, p)
         IN IF m.err = "ok" THEN [ok |-> TRUE, fs |-> m.fs]
            ELSE IF m.err # "notfound" THEN [ok |-> is_dir(f, p), fs |-> f]
            ELSE LET up == create_dir_all(f, LexicalParent(p))
                     again == mkdir(up.fs, p)
                 IN IF ~up.ok THEN up
                    ELSE IF again.err = "ok" THEN [ok |-> TRUE, fs |-> again.fs]
                    ELSE [ok |-> is_dir(up.fs, p), fs |-> up.fs]

\* Where a path points once its ".." components and symbolic links are
\* resolved, components that do not exist being taken as plain names.
RECURSIVE Designate(_, _, _)
Designate(f, here, rest) ==
    IF rest = << >> THEN here
    ELSE LET c == Head(rest)
             nxt == Append(here, c)
         IN IF c = ".." THEN Designate(f, Parent(here), Tail(rest))
            ELSE IF nxt \in DOMAIN f /\ f[nxt].kind = "symlink"
                 THEN Designate(f, f[nxt].target, Tail(rest))
            ELSE Designate(f, nxt, Tail(rest))

SeqsUpTo(S, n) == UNION {[1..k -> S] : k \in 0..n}
Ups(n) == [i \in 1..n |-> ".."]

\* The requested paths: down at most two names, up at most MaxUps levels,
\* then at most one name; with or without a leading slash.
RequestedPaths ==
    {[slash |-> sl, path |-> d \o Ups(n) \o t] :
        sl \in BOOLEAN, d \in SeqsUpTo(PathNames, 2), n \in 0..MaxUps,
        t \in SeqsUpTo(PathNames, 1)}

\* requested.trim_start_matches('/')
TrimStartSlashes(requested) == requested.path

NoRequest ==
    [endpoint |-> "none", requested |-> [slash |-> FALSE, path |-> << >>],
     designated |-> NoPath, resolved |-> NoPath, accessed |-> NoPath,
     status |-> 0]

Handled(endpoint, requested, resolved, accessed, status) ==
    [endpoint |-> endpoint, requested |-> requested,
     designated |-> Designate(fs, << >>, Workspace \o TrimStartSlashes(requested)),
     resolved |-> resolved, accessed |-> accessed, status |-> status]

\* GET /api/media/{*path}
handle_media_stream(requested) ==
    LET abs_path == resolve_workspace_media_path(fs, TrimStartSlashes(requested))
    IN /\ fs_pc = "idle"
       /\ fs_req' = IF abs_path = NoPath
                    THEN Handled("media", requested, NoPath, NoPath, 400)
                    ELSE IF fs[abs_path].kind # "file"
                    THEN Handled("media", requested, abs_path, NoPath, 404)
                    ELSE Handled("media", requested, abs_path, abs_path, 200)
       /\ fs_pc' = "done"
       /\ UNCHANGED << fs, saves >>

\* GET /api/library/text?path=
handle_library_text(requested) ==
    LET path == resolve_workspace_text_path(fs, TrimStartSlashes(requested))
        place == Walk(fs, << >>, path, FALSE)
    IN /\ fs_pc = "idle"
       /\ fs_req' = IF path = NoPath
                    THEN Handled("text", requested, NoPath, NoPath, 400)
                    ELSE IF Failed(place) \/ fs[place].kind # "file"
                    THEN Handled("text", requested, path, NoPath, 404)
                    ELSE Handled("text", requested, path, place, 200)
       /\ fs_pc' = "done"
       /\ UNCHANGED << fs, saves >>

\* POST /api/library/save-text
handle_library_save_text(requested) ==
    LET path == resolve_workspace_text_path(fs, TrimStartSlashes(requested))
        made == create_dir_all(fs, LexicalParent(path))
        place == Walk(made.fs, << >>, path, TRUE)
    IN /\ fs_pc = "idle"
       /\ saves' = saves + 1
       /\ fs_pc' = "done"
       /\ IF path = NoPath
          THEN /\ fs_req' = Handled("save", requested, NoPath, NoPath, 400)
               /\ UNCHANGED fs
          ELSE IF ~made.ok \/ Failed(place) \/ IsDir(made.fs, place)
          THEN /\ fs_req' = Handled("save", requested, path, NoPath, 500)
               /\ fs' = made.fs
          ELSE /\ fs_req' = Handled("save", requested, path, place, 200)
               /\ fs' = With(made.fs, place, Node("file", << >>))

\* The response is sent.
PathRespond ==
    /\ fs_pc = "done"
    /\ fs_pc' = "idle"
    /\ fs_req' = NoRequest
    /\ UNCHANGED << fs, saves >>

PathInit ==
    /\ fs \in {FsOf(BaseDirs, BaseFiles, {}), FsOf(BaseDirs, BaseFiles, BaseLinks)}
    /\ fs_pc = "idle"
    /\ fs_req = NoRequest
    /\ saves = 0

PathIdle ==
    /\ fs = FsOf(BaseDirs, BaseFiles, {})
    /\ fs_pc = "idle"
    /\ fs_req = NoRequest
    /\ saves = 0

\* The file system is followed up to MaxSaves save-text requests.
PathNext ==
    \/ /\ fs_pc = "idle" /\ saves < MaxSaves
       /\ \/ \E q \in RequestedPaths : handle_media_stream(q)
          \/ \E q \in RequestedPaths : handle_library_text(q)
          \/ \E q \in RequestedPaths : handle_library_save_text(q)
    \/ PathRespond

(***************************************************************************)
(* Client key derivation (client_key_from_request)                         *)
(*   ck_peer   the peer address of the connection (NoIp: none)             *)
(*   ck_trust  trust_forwarded_headers                                     *)
(*   ck_last   the headers of the latest request and the key derived      *)
(*   ck_keys   the keys derived for the requests so far (history)          *)
(* A header value is a pair of its shape and the address it spells.        *)
(***************************************************************************)
VARIABLES ck_peer, ck_trust, ck_last, ck_keys

keyVars == << ck_peer, ck_trust, ck_last, ck_keys >>

NoIp == "<no ip>"
PeerIps == {"192.0.2.7"}
HeaderIps == {"10.0.0.1", "2001:db8::1"}

AbsentHeader == << "absent", NoIp >>

HeaderValues ==
    {<< "garbage", NoIp >>, << "empty", NoIp >>, << "plain", "10.0.0.1" >>,
     << "quoted", "2001:db8::1" >>, << "socket", "10.0.0.1" >>,
     << "bracketed", "2001:db8::1" >>}

\* value.trim().trim_matches('"').trim()
StripOuter(v) == IF v[1] = "quoted" THEN << "plain", v[2] >> ELSE v

\* value.parse::<IpAddr>()
ParseIpAddr(v) == IF v[1] = "plain" THEN v[2] ELSE NoIp

\* value.parse::<SocketAddr>() and then addr.ip()
ParseSocketAddr(v) == IF v[1] = "socket" THEN v[2] ELSE NoIp

\* value.trim_matches(['[', ']'])
StripBrackets(v) == IF v[1] = "bracketed" THEN << "plain", v[2] >> ELSE v

parse_client_ip(value) ==
    LET v == StripOuter(value)
    IN IF v[1] = "empty" THEN NoIp
       ELSE IF ParseIpAddr(v) # NoIp THEN ParseIpAddr(v)
       ELSE IF ParseSocketAddr(v) # NoIp THEN ParseSocketAddr(v)
       ELSE ParseIpAddr(StripBrackets(v))

\* The loop over xff.split(','): the first candidate that parses.
RECURSIVE FirstParsed(_)
FirstParsed(candidates) ==
    IF candidates = << >> THEN NoIp
    ELSE IF parse_client_ip(Head(candidates)) # NoIp
    THEN parse_client_ip(Head(candidates))
    ELSE FirstParsed(Tail(candidates))

\* An absent X-Forwarded-For has no candidates; an absent X-Real-IP is
\* AbsentHeader.
forwarded_client_ip(xff, xreal) ==
    IF FirstParsed(xff) # NoIp THEN FirstParsed(xff)
    ELSE IF xreal # AbsentHeader THEN parse_client_ip(xreal)
    ELSE NoIp

\* The derivation with the trust flag ignored.
client_key_trusting(peer, xff, xreal, trust) ==
    IF forwarded_client_ip(xff, xreal) # NoIp
    THEN forwarded_client_ip(xff, xreal)
    ELSE IF peer # NoIp THEN peer ELSE "unknown"

client_key_from_request(peer, xff, xreal, trust) ==
    IF trust /\ forwarded_client_ip(xff, xreal) # NoIp
    THEN forwarded_client_ip(xff, xreal)
    ELSE IF peer # NoIp THEN peer ELSE "unknown"

ForwardedForHeaders ==
    {<< >>} \cup {<< c >> : c \in HeaderValues}
            \cup {<< c, d >> : c \in HeaderValues,
                               d \in {<< "garbage", NoIp >>, << "plain", "10.0.0.1" >>,
                                      << "bracketed", "2001:db8::1" >>}}
RealIpHeaders == {AbsentHeader} \cup HeaderValues

\* A request arrives on the connection and its client key is derived.
ClientKeyRequest(xff, xreal) ==
    LET key == client_key_from_request(ck_peer, xff, xreal, ck_trust)
    IN /\ ck_last' = [xff |-> xff, xreal |-> xreal, key |-> key]
       /\ ck_keys' = ck_keys \cup {key}
       /\ UNCHANGED << ck_peer, ck_trust >>

KeyInit ==
    /\ ck_peer \in PeerIps \cup {NoIp}
    /\ ck_trust \in BOOLEAN
    /\ ck_last = [xff |-> << >>, xreal |-> AbsentHeader, key |-> "none"]
    /\ ck_keys = {}

KeyIdle ==
    /\ ck_peer = NoIp
    /\ ck_trust = FALSE
    /\ ck_last = [xff |-> << >>, xreal |-> AbsentHeader, key |-> "none"]
    /\ ck_keys = {}

KeyNext ==
    \E xff \in ForwardedForHeaders, xreal \in RealIpHeaders :
        ClientKeyRequest(xff, xreal)

(***************************************************************************)
(* Desktop supervisor (src-tauri main.rs: RuntimeProcesses, main)          *)
(*   runtime       the two process slots of RuntimeProcesses: "Some" while *)
(*                 the slot holds the child, "None" otherwise              *)
(*   desk_pc       the position of the main thread: in setup, in the event *)
(*                 loop, or at a slot of shutdown_all                      *)
(*   desk_slot     in shutdown_all, the rank of the slot it has come to    *)
(*   desk_after    where shutdown_all returns to                           *)
(*   desk_events   the shutdown triggers received so far (history)         *)
(*   desk_kills    the children that were sent a kill, in order (history)  *)
(*   desk_handled  the number of triggers whose handler has returned       *)
(***************************************************************************)
VARIABLES runtime, desk_pc, desk_slot, desk_after, desk_events, desk_kills, desk_handled

desktopVars == << runtime, desk_pc, desk_slot, desk_after, desk_events, desk_kills,
                 desk_handled >>

\* The most triggers one run of the application receives.
MaxTriggers == 4

\* WindowEvent::CloseRequested, RunEvent::ExitRequested, RunEvent::Exit
Triggers == {"CloseRequested", "ExitRequested", "Exit"}

\* RuntimeProcesses::shutdown_all: the slots in the order they are shut down.
ShutdownOrderReversed == << "pocketbase", "slowclaw_daemon" >>
ShutdownOrder == << "slowclaw_daemon", "pocketbase" >>

\* setup: spawn_pocketbase_sidecar and set_pocketbase; an error ends setup.
setup_pocketbase(ok) ==
    /\ desk_pc = "spawn_pocketbase"
    /\ IF ok
       THEN /\ runtime' = [runtime EXCEPT !["pocketbase"] = "Some"]
            /\ desk_pc' = "spawn_daemon"
       ELSE /\ desk_pc' = "failed"
            /\ UNCHANGED runtime
    /\ UNCHANGED << desk_slot, desk_after, desk_events, desk_kills, desk_handled >>

\* setup: spawn_slowclaw_daemon and set_slowclaw_daemon; on an error
\* shutdown_all runs and setup fails.
setup_slowclaw_daemon(ok) ==
    /\ desk_pc = "spawn_daemon"
    /\ IF ok
       THEN /\ runtime' = [runtime EXCEPT !["slowclaw_daemon"] = "Some"]
            /\ desk_pc' = "run"
            /\ UNCHANGED << desk_slot, desk_after >>
       ELSE /\ desk_pc' = "shutdown_all"
            /\ desk_slot' = 1
            /\ desk_after' = "failed"
            /\ UNCHANGED runtime
    /\ UNCHANGED << desk_events, desk_kills, desk_handled >>

\* on_window_event and the callback of app.run: a trigger calls shutdown_all.
shutdown_trigger(event) ==
    /\ desk_pc = "run"
    /\ Len(desk_events) < MaxTriggers
    /\ desk_events' = Append(desk_events, event)
    /\ desk_pc' = "shutdown_all"
    /\ desk_slot' = 1
    /\ desk_after' = "run"
    /\ UNCHANGED << runtime, desk_kills, desk_handled >>

\* shutdown_process on the slot shutdown_all has come to: take() empties the
\* slot, and the child it held is sent a kill.
shutdown_process ==
    /\ desk_pc = "shutdown_all"
    /\ LET slot == ShutdownOrder[desk_slot]
           last == desk_slot = Len(ShutdownOrder)
       IN /\ runtime' = [runtime EXCEPT ![slot] = "None"]
          /\ desk_kills' = IF runtime[slot] = "Some" THEN Append(desk_kills, slot)
                           ELSE desk_kills
          /\ desk_pc' = IF last THEN desk_after ELSE desk_pc
          /\ desk_slot' = IF last THEN 0 ELSE desk_slot + 1
          /\ desk_handled' = IF last /\ desk_after = "run" THEN desk_handled + 1
                             ELSE desk_handled
    /\ UNCHANGED << desk_after, desk_events >>

\* RuntimeProcesses::default() and the start of setup
DesktopInit ==
    /\ runtime = [slot \in {"pocketbase", "slowclaw_daemon"} |-> "None"]
    /\ desk_pc = "spawn_pocketbase"
    /\ desk_slot = 0
    /\ desk_after = "run"
    /\ desk_events = << >>
    /\ desk_kills = << >>
    /\ desk_handled = 0

DesktopIdle ==
    /\ runtime = [slot \in {"pocketbase", "slowclaw_daemon"} |-> "None"]
    /\ desk_pc = "idle"
    /\ desk_slot = 0
    /\ desk_after = "run"
    /\ desk_events = << >>
    /\ desk_kills = << >>
    /\ desk_handled = 0

DesktopNext ==
    \/ \E ok \in BOOLEAN : setup_pocketbase(ok)
    \/ \E ok \in BOOLEAN : setup_slowclaw_daemon(ok)
    \/ \E event \in Triggers : shutdown_trigger(event)
    \/ shutdown_process

(***************************************************************************)
(* run_gateway from the bind to its return                                 *)
(*   gw_pc                   the position in run_gateway                   *)
(*   gw_result               "none" while it runs, then "Ok" or "Err"      *)
(*   gw_stage                the statement that made it return             *)
(*   pocketbase_sidecar      the local of that name: "None", "Some", or    *)
(*                           "dropped"                                     *)
(*   pocketbase_chat_worker  the local of that name, likewise              *)
(*   tunnel_url              the local of that name: "None" or "Some"      *)
(*   sidecar_child           the sidecar process: "absent", "running" or   *)
(*                           "kill_sent"                                   *)
(*   worker_task             the spawned run_worker_loop task: "absent",   *)
(*                           "running" or "aborted"                        *)
(*   worker_ticks            the ticks the worker task has run             *)
(*   polls_after_return      those of them that it ran after run_gateway   *)
(*                           returned (history)                            *)
(***************************************************************************)
VARIABLES gw_pc, gw_result, gw_stage, pocketbase_sidecar, pocketbase_chat_worker,
          tunnel_url, sidecar_child, worker_task, worker_ticks, polls_after_return,
          gw_config, listener

runVars == << gw_pc, gw_result, gw_stage, pocketbase_sidecar, pocketbase_chat_worker,
             tunnel_url, sidecar_child, worker_task, worker_ticks,
             polls_after_return, gw_config, listener >>

\* The configuration run_gateway is called with: the host, tunnel.provider
\* and gateway.allow_public_bind.
GatewayConfig(host, provider, allow_public_bind) ==
    [host |-> host, provider |-> provider, allow_public_bind |-> allow_public_bind]
Hosts == {"127.0.0.1", "localhost", "0.0.0.0", "192.168.1.7"}
TunnelProviders == {"none", "cloudflare"}

\* security::pairing::is_public_bind: the host is not a loopback one.
is_public_bind(host) == host \notin {"127.0.0.1", "localhost", "::1", "[::1]"}

\* The refusal, were it never made.
PublicBindRefusedNever(config) == FALSE

\* run_gateway: the condition of the refusal.
PublicBindRefused(config) ==
    is_public_bind(config.host) /\ config.provider = "none" /\ ~config.allow_public_bind

\* The most ticks of the worker task that are followed.
MaxPolls == 2

\* Drop for PocketBaseSidecar: child.start_kill()
DropSidecar(local, child) == IF local = "Some" THEN "kill_sent" ELSE child

\* PocketBaseChatWorkerHandle has no Drop: dropping the JoinHandle detaches
\* the task and leaves it running.
DropWorker(local, task) == task

\* PocketBaseChatWorkerHandle::abort
AbortWorker(local, task) == IF local = "Some" THEN "aborted" ELSE task

\* A return of run_gateway with result at the statement stage: the locals are
\* dropped, the worker handle before the sidecar.
ReturnFrom(stage, result) ==
    /\ gw_pc' = "returned"
    /\ gw_result' = result
    /\ gw_stage' = stage
    /\ worker_task' = DropWorker(pocketbase_chat_worker, worker_task)
    /\ sidecar_child' = DropSidecar(pocketbase_sidecar, sidecar_child)
    /\ pocketbase_chat_worker' = "dropped"
    /\ pocketbase_sidecar' = "dropped"
    /\ listener' = IF listener = "bound" THEN "closed" ELSE listener
    /\ UNCHANGED << gw_config, tunnel_url, worker_ticks, polls_after_return >>

\* A statement that succeeded: on to the next.
Proceed(next) ==
    /\ gw_pc' = next
    /\ UNCHANGED << gw_config, listener, gw_result, gw_stage, pocketbase_sidecar, pocketbase_chat_worker,
                    tunnel_url, sidecar_child, worker_task, worker_ticks,
                    polls_after_return >>

\* run_gateway: the public-bind check, its first statement.
public_bind_check ==
    /\ gw_pc = "check"
    /\ IF PublicBindRefused(gw_config) THEN ReturnFrom("check", "Err")
       ELSE Proceed("bind")

\* run_gateway: the address and TcpListener::bind.
gateway_bind(ok) ==
    /\ gw_pc = "bind"
    /\ IF ok
       THEN /\ gw_pc' = "sidecar"
            /\ listener' = "bound"
            /\ UNCHANGED << gw_config, gw_result, gw_stage, pocketbase_sidecar,
                            pocketbase_chat_worker, tunnel_url, sidecar_child,
                            worker_task, worker_ticks, polls_after_return >>
       ELSE ReturnFrom("bind", "Err")

\* run_gateway: pocketbase_sidecar::maybe_start; "absent" is Ok(None)
\* (disabled or no binary), "failed" an error, which is logged.
start_sidecar(outcome) ==
    /\ gw_pc = "sidecar"
    /\ gw_pc' = "worker"
    /\ pocketbase_sidecar' = IF outcome = "started" THEN "Some" ELSE "None"
    /\ sidecar_child' = IF outcome = "started" THEN "running" ELSE "absent"
    /\ UNCHANGED << gw_config, listener, gw_result, gw_stage, pocketbase_chat_worker, tunnel_url,
                    worker_task, worker_ticks, polls_after_return >>

\* run_gateway: pocketbase_chat::maybe_spawn_gateway_worker; the task is
\* spawned unless it is disabled or no base URL is known, from the
\* environment or from the sidecar.
spawn_worker(disabled, env_url) ==
    /\ gw_pc = "worker"
    /\ gw_pc' = "provider"
    /\ LET spawned == ~disabled /\ (env_url \/ pocketbase_sidecar = "Some")
       IN /\ pocketbase_chat_worker' = IF spawned THEN "Some" ELSE "None"
          /\ worker_task' = IF spawned THEN "running" ELSE "absent"
    /\ UNCHANGED << gw_config, listener, gw_result, gw_stage, pocketbase_sidecar, tunnel_url,
                    sidecar_child, worker_ticks, polls_after_return >>

\* run_gateway: create_resilient_provider_with_options(..)?
create_provider(ok) ==
    /\ gw_pc = "provider"
    /\ IF ok THEN Proceed("memory") ELSE ReturnFrom("provider", "Err")

\* run_gateway: create_memory_with_storage(..)?
create_memory(ok) ==
    /\ gw_pc = "memory"
    /\ IF ok THEN Proceed("tunnel") ELSE ReturnFrom("memory", "Err")

\* run_gateway: create_tunnel(..)? and tun.start; a tunnel that fails to
\* start is logged and the gateway stays local.
create_tunnel(outcome) ==
    /\ gw_pc = "tunnel"
    /\ IF outcome = "error" THEN ReturnFrom("tunnel", "Err")
       ELSE /\ gw_pc' = "serve"
            /\ tunnel_url' = IF outcome = "started" THEN "Some" ELSE "None"
            /\ UNCHANGED << gw_config, listener, gw_result, gw_stage, pocketbase_sidecar,
                            pocketbase_chat_worker, sidecar_child, worker_task,
                            worker_ticks, polls_after_return >>

\* run_gateway: axum::serve(..).await?
serve(ok) ==
    /\ gw_pc = "serve"
    /\ IF ok THEN Proceed("shutdown") ELSE ReturnFrom("serve", "Err")

\* run_gateway: the statements after the server: worker.abort(), the two
\* drops and Ok(()).
shutdown ==
    /\ gw_pc = "shutdown"
    /\ gw_pc' = "returned"
    /\ gw_result' = "Ok"
    /\ gw_stage' = "shutdown"
    /\ worker_task' = AbortWorker(pocketbase_chat_worker, worker_task)
    /\ sidecar_child' = DropSidecar(pocketbase_sidecar, sidecar_child)
    /\ pocketbase_chat_worker' = "dropped"
    /\ pocketbase_sidecar' = "dropped"
    /\ listener' = IF listener = "bound" THEN "closed" ELSE listener
    /\ UNCHANGED << gw_config, tunnel_url, worker_ticks, polls_after_return >>

\* run_worker_loop: a tick of the worker task, which runs beside
\* run_gateway from its spawn on; an aborted task runs no more.
worker_tick ==
    /\ worker_task = "running"
    /\ worker_ticks < MaxPolls
    /\ worker_ticks' = worker_ticks + 1
    /\ polls_after_return' = polls_after_return + (IF gw_pc = "returned" THEN 1 ELSE 0)
    /\ UNCHANGED << gw_config, listener, gw_pc, gw_result, gw_stage, pocketbase_sidecar,
                    pocketbase_chat_worker, tunnel_url, sidecar_child, worker_task >>

RunInit ==
    /\ gw_pc = "check"
    /\ \E host \in Hosts, provider \in TunnelProviders, opt_in \in BOOLEAN :
           gw_config = GatewayConfig(host, provider, opt_in)
    /\ listener = "unbound"
    /\ gw_result = "none"
    /\ gw_stage = "none"
    /\ pocketbase_sidecar = "None"
    /\ pocketbase_chat_worker = "None"
    /\ tunnel_url = "None"
    /\ sidecar_child = "absent"
    /\ worker_task = "absent"
    /\ worker_ticks = 0
    /\ polls_after_return = 0

RunIdle ==
    /\ gw_pc = "idle"
    /\ gw_config = GatewayConfig("127.0.0.1", "none", FALSE)
    /\ listener = "unbound"
    /\ gw_result = "none"
    /\ gw_stage = "none"
    /\ pocketbase_sidecar = "None"
    /\ pocketbase_chat_worker = "None"
    /\ tunnel_url = "None"
    /\ sidecar_child = "absent"
    /\ worker_task = "absent"
    /\ worker_ticks = 0
    /\ polls_after_return = 0

RunNext ==
    \/ public_bind_check
    \/ \E ok \in BOOLEAN : gateway_bind(ok)
    \/ \E outcome \in {"started", "absent", "failed"} : start_sidecar(outcome)
    \/ \E disabled, env_url \in BOOLEAN : spawn_worker(disabled, env_url)
    \/ \E ok \in BOOLEAN : create_provider(ok)
    \/ \E ok \in BOOLEAN : create_memory(ok)
    \/ \E outcome \in {"error", "none", "started", "start_failed"} : create_tunnel(outcome)
    \/ \E ok \in BOOLEAN : serve(ok)
    \/ shutdown
    \/ worker_tick

(***************************************************************************)
(* Desktop client of the gateway (src-tauri main.rs:                       *)
(* bootstrap_desktop_gateway_token, generate_mobile_pairing_qr_desktop)    *)
(*   keyring  the desktop token stored in the keyring (NoToken: none)      *)
(*   boot     bootstrap_desktop_gateway_token: its position, the code the  *)
(*            daemon printed at its start, its result and whether it       *)
(*            returned the stored token without pairing                    *)
(*   qr       the generate_mobile_pairing_qr calls: position, the desktop  *)
(*            token read, the code and the token received, the host of the *)
(*            gatewayUrl, the POST requests made (history), the result     *)
(* The gateway the client talks to is the pairing guard above.             *)
(***************************************************************************)
VARIABLES keyring, boot, qr

clientVars == << keyring, boot, qr >>

QrCalls == {1, 2}

\* A token the gateway never minted: one kept in the keyring from an
\* earlier installation or configuration.
StaleToken == Token(0)

LoopbackHost == "127.0.0.1"
LanHost == "192.168.1.7"

\* resolve_local_lan_ip: none when the socket calls fail ("error") or the
\* local address is loopback.
resolve_local_lan_ip(outcome) == IF outcome = "lan" THEN LanHost ELSE "none"

\* resolve_local_lan_ip().unwrap_or_else(|| "127.0.0.1".to_string())
GatewayHost(outcome) ==
    IF resolve_local_lan_ip(outcome) = "none" THEN LoopbackHost
    ELSE resolve_local_lan_ip(outcome)

\* handle_health: public, 200 whatever the Authorization header.
handle_health(token) == 200

\* is_gateway_token_valid: GET /health with the token as bearer; false when
\* the request itself fails.
is_gateway_token_valid(token, reachable) ==
    reachable /\ handle_health(token) = 200

\* The gateway's answer to POST /pair with code: the status, the token
\* minted and the guard's tokens and code afterwards. allowed is the answer
\* of the pair limiter and the lockout.
PairAnswerForgets(code, allowed) ==
    [status |-> IF allowed THEN 200 ELSE 429,
     token |-> Token(Cardinality(guard_tokens) + 1), tokens |-> guard_tokens,
     code |-> NoCode]
PairAnswer(code, allowed) ==
    LET minted == Token(Cardinality(guard_tokens) + 1)
    IN IF ~allowed
       THEN [status |-> 429, token |-> NoToken, tokens |-> guard_tokens,
             code |-> pairing_code]
       ELSE IF pairing_code # NoCode /\ constant_time_eq(code, pairing_code)
       THEN [status |-> 200, token |-> minted,
             tokens |-> guard_tokens \cup {minted}, code |-> NoCode]
       ELSE [status |-> 403, token |-> NoToken, tokens |-> guard_tokens,
             code |-> pairing_code]

\* The gateway's part of POST /pair as the client sees it: try_pair and
\* persist_pairing_tokens, whose save succeeds or not.
GatewayPairs(a, saved) ==
    /\ guard_tokens' = a.tokens
    /\ pairing_code' = a.code
    /\ IF a.status = 200 /\ saved
       THEN cfg_mem' = a.tokens /\ cfg_file' = a.tokens
       ELSE UNCHANGED << cfg_mem, cfg_file >>
    /\ failures_by_key' = IF a.status = 403 THEN RecordFailure ELSE failures_by_key
    /\ UNCHANGED << require_pairing, codes_made, pair >>

BootDone(result, skipped) ==
    [boot EXCEPT !.pc = "done", !.result = result, !.skipped = skipped]

\* bootstrap_desktop_gateway_token: wait_for_gateway_ready().await?
boot_wait(ready) ==
    /\ boot.pc = "wait"
    /\ boot' = IF ready THEN [boot EXCEPT !.pc = "load"] ELSE BootDone("Err", FALSE)
    /\ UNCHANGED << keyring, qr, guardVars, pairVars >>

\* bootstrap_desktop_gateway_token: the stored token is returned when
\* is_gateway_token_valid accepts it.
boot_load(reachable) ==
    /\ boot.pc = "load"
    /\ boot' = IF keyring # NoToken /\ is_gateway_token_valid(keyring, reachable)
               THEN BootDone("Some", TRUE)
               ELSE [boot EXCEPT !.pc = "listen"]
    /\ UNCHANGED << keyring, qr, guardVars, pairVars >>

\* bootstrap_desktop_gateway_token: a line of the daemon carries the code;
\* pair_with_code(&code).await? and save_gateway_token_to_keyring(&token)?
boot_pair(allowed, saved, stored) ==
    LET a == PairAnswer(boot.printed, allowed)
    IN /\ boot.pc = "listen"
       /\ boot.printed # NoCode
       /\ GatewayPairs(a, saved)
       /\ IF a.status = 200 /\ stored
          THEN keyring' = a.token /\ boot' = BootDone("Some", FALSE)
          ELSE UNCHANGED keyring /\ boot' = BootDone("Err", FALSE)
       /\ UNCHANGED qr

\* bootstrap_desktop_gateway_token: the deadline passes without a code.
boot_deadline ==
    /\ boot.pc = "listen"
    /\ boot' = BootDone("None", FALSE)
    /\ UNCHANGED << keyring, qr, guardVars, pairVars >>

NewQr ==
    [pc |-> "new", desktop |-> NoToken, code |-> NoCode, token |-> NoToken,
     host |-> "none", posts |-> << >>, ok |-> FALSE]

QrFails(q) == [q EXCEPT !.pc = "done", !.ok = FALSE]

\* generate_mobile_pairing_qr_desktop: wait_for_gateway_ready, the token of
\* the keyring and is_gateway_token_valid.
qr_start(i, ready) ==
    /\ boot.pc = "done"
    /\ qr[i].pc = "new"
    /\ \A j \in QrCalls : j < i => qr[j].pc # "new"
    /\ qr' = [qr EXCEPT ![i] =
                IF ready /\ keyring # NoToken /\ is_gateway_token_valid(keyring, TRUE)
                THEN [@ EXCEPT !.pc = "new_code", !.desktop = keyring]
                ELSE QrFails(@)]
    /\ UNCHANGED << keyring, boot, guardVars, pairVars >>

\* mint_additional_gateway_token: POST /pair/new-code with the desktop token
\* (handle_pair_new_code: 401 without a valid bearer token, 400 when pairing
\* is disabled, else a fresh code).
qr_new_code(i) ==
    LET q == [qr[i] EXCEPT !.posts = Append(@, "/pair/new-code")]
    IN /\ qr[i].pc = "new_code"
       /\ codes_made < MaxCodes
       /\ IF require_pairing /\ is_authenticated(q.desktop)
          THEN /\ pairing_code' = Code(codes_made + 1)
               /\ codes_made' = codes_made + 1
               /\ qr' = [qr EXCEPT ![i] = [q EXCEPT !.pc = "pair",
                                                    !.code = Code(codes_made + 1)]]
          ELSE /\ qr' = [qr EXCEPT ![i] = QrFails(q)]
               /\ UNCHANGED << pairing_code, codes_made >>
       /\ UNCHANGED << keyring, boot, require_pairing, guard_tokens, failures_by_key,
                       pairVars >>

\* mint_additional_gateway_token: pair_with_code(&code_payload.code)
qr_pair(i, allowed, saved) ==
    LET q == [qr[i] EXCEPT !.posts = Append(@, "/pair")]
        a == PairAnswer(q.code, allowed)
    IN /\ qr[i].pc = "pair"
       /\ GatewayPairs(a, saved)
       /\ qr' = [qr EXCEPT ![i] = IF a.status = 200
                                  THEN [q EXCEPT !.pc = "ip", !.token = a.token]
                                  ELSE QrFails(q)]
       /\ UNCHANGED << keyring, boot >>

\* generate_mobile_pairing_qr_desktop: the gatewayUrl and the payload.
qr_payload(i, outcome) ==
    /\ qr[i].pc = "ip"
    /\ qr' = [qr EXCEPT ![i] = [@ EXCEPT !.pc = "done", !.ok = TRUE,
                                        !.host = GatewayHost(outcome)]]
    /\ UNCHANGED << keyring, boot, guardVars, pairVars >>

ClientIdle ==
    /\ keyring = NoToken
    /\ boot = [pc |-> "idle", printed |-> NoCode, result |-> "none", skipped |-> FALSE]
    /\ qr = [i \in QrCalls |-> NewQr]

\* The daemon starts with the tokens of its config and prints a code when it
\* has none; the keyring holds no token, one of the gateway's, or a stale one.
ClientInit ==
    /\ require_pairing \in BOOLEAN
    /\ guard_tokens \in {{}, {Token(1)}}
    /\ pairing_code = IF require_pairing /\ guard_tokens = {} THEN Code(1) ELSE NoCode
    /\ codes_made = IF pairing_code = NoCode THEN 0 ELSE 1
    /\ failures_by_key = 0
    /\ cfg_mem = guard_tokens /\ cfg_file = guard_tokens
    /\ pair = [p \in PairReqs |-> NewPair]
    /\ keyring \in {NoToken, StaleToken, Token(1)}
    /\ boot = [pc |-> "wait", printed |-> pairing_code, result |-> "none",
               skipped |-> FALSE]
    /\ qr = [i \in QrCalls |-> NewQr]

ClientNext ==
    \/ \E ready \in BOOLEAN : boot_wait(ready)
    \/ \E reachable \in BOOLEAN : boot_load(reachable)
    \/ \E allowed, saved, stored \in BOOLEAN : boot_pair(allowed, saved, stored)
    \/ boot_deadline
    \/ \E i \in QrCalls, ready \in BOOLEAN : qr_start(i, ready)
    \/ \E i \in QrCalls : qr_new_code(i)
    \/ \E i \in QrCalls, allowed, saved \in BOOLEAN : qr_pair(i, allowed, saved)
    \/ \E i \in QrCalls, outcome \in {"error", "loopback", "lan"} : qr_payload(i, outcome)

(***************************************************************************)
(* Webhook signatures of the third-party channels                          *)
(*                                                                         *)
(* Secrets, salts and bodies are byte strings; a signature is text, one    *)
(* character per element.  HMAC-SHA256 is a digest of DigestLen bytes that *)
(* differs for every (secret, payload) of the domain.                      *)
(***************************************************************************)
VARIABLES sig

DigestLen == 2

RECURSIVE Fold(_)
Fold(bytes) ==
    IF bytes = << >> THEN 0
    ELSE (Fold(SubSeq(bytes, 1, Len(bytes) - 1)) * 33 + bytes[Len(bytes)] + 1) % 256

Hmac(secret, payload) ==
    [i \in 1..DigestLen |->
        IF i = 1 THEN Fold(secret)
        ELSE IF i = 2 THEN Fold(payload)
        ELSE (Fold(secret) + Fold(payload) + i) % 256]

HexLower == << "0", "1", "2", "3", "4", "5", "6", "7", "8", "9",
               "a", "b", "c", "d", "e", "f" >>
HexUpper == << "0", "1", "2", "3", "4", "5", "6", "7", "8", "9",
               "A", "B", "C", "D", "E", "F" >>

\* hex::encode with an alphabet of sixteen digits.
HexEncode(bytes, digits) ==
    [i \in 1..(2 * Len(bytes)) |->
        IF i % 2 = 1 THEN digits[(bytes[(i + 1) \div 2] \div 16) + 1]
        ELSE digits[(bytes[i \div 2] % 16) + 1]]

IsHexDigit(c) == \E d \in 1..16 : c \in {HexLower[d], HexUpper[d]}
HexVal(c) == (CHOOSE d \in 1..16 : c \in {HexLower[d], HexUpper[d]}) - 1

\* hex::decode: an error for an odd length or a character that is no hex
\* digit; both cases of a letter are accepted.
HexError == << -1 >>
hex_decode(text) ==
    IF Len(text) % 2 = 1 \/ \E i \in 1..Len(text) : ~IsHexDigit(text[i])
    THEN HexError
    ELSE [i \in 1..(Len(text) \div 2) |-> HexVal(text[2 * i - 1]) * 16 + HexVal(text[2 * i])]

Sha256Prefix == << "s", "h", "a", "2", "5", "6", "=" >>
NoPrefix == << -1 >>
strip_prefix(text, prefix) ==
    IF Len(text) >= Len(prefix) /\ SubSeq(text, 1, Len(prefix)) = prefix
    THEN SubSeq(text, Len(prefix) + 1, Len(text))
    ELSE NoPrefix

\* Mac::verify_slice: the tag has the digest's length and its bytes.
verify_slice(secret, payload, tag) == tag = Hmac(secret, payload)

verify_whatsapp_signature(app_secret, body, signature_header) ==
    /\ strip_prefix(signature_header, Sha256Prefix) # NoPrefix
    /\ hex_decode(strip_prefix(signature_header, Sha256Prefix)) # HexError
    /\ verify_slice(app_secret, body, hex_decode(strip_prefix(signature_header, Sha256Prefix)))

\* channels::linq and channels::nextcloud_talk of this fork.
verify_linq_signature(secret, body, timestamp, signature) == FALSE
verify_nextcloud_talk_signature(secret, random, body, signature) == FALSE

SigStyles == {"whatsapp", "nextcloud_talk", "linq"}
Secrets == {<< 1 >>, << 2 >>}
Salts == {<< 49 >>, << 49, 50 >>}
Bodies == {<< >>, << 97 >>, << 50, 97 >>}
SaltsOf(style) == IF style = "whatsapp" THEN {<< >>} ELSE Salts
PrefixOf(style) == IF style = "whatsapp" THEN Sha256Prefix ELSE << >>

\* The payload a style signs: the body, random || body, timestamp || body.
Payload(style, salt, body) == salt \o body

\* The signatures a sender can supply for a digest: the right one in either
\* case of the hex letters, and its damaged forms.
SignatureForms(style, digest) ==
    LET hex == HexEncode(digest, HexLower)
        pre == PrefixOf(style)
    IN  { pre \o hex,
          pre \o HexEncode(digest, HexUpper),
          hex,
          << "S", "H", "A", "2", "5", "6", "=" >> \o hex,
          pre \o SubSeq(hex, 1, Len(hex) - 2),
          pre \o SubSeq(hex, 1, Len(hex) - 1),
          pre \o hex \o << "0", "0" >>,
          pre \o << "z" >> \o Tail(hex),
          pre,
          << >> }

Signatures(style) ==
    UNION { SignatureForms(style, Hmac(k, Payload(style, salt, body))) :
            k \in Secrets, salt \in SaltsOf(style), body \in Bodies }

NoSig == [style |-> "none", secret |-> << >>, salt |-> << >>, body |-> << >>,
          signature |-> << >>, result |-> FALSE]

Verified(style, secret, salt, body, signature, result) ==
    sig' = [style |-> style, secret |-> secret, salt |-> salt, body |-> body,
            signature |-> signature, result |-> result]

verify_whatsapp(app_secret, body, signature_header) ==
    Verified("whatsapp", app_secret, << >>, body, signature_header,
             verify_whatsapp_signature(app_secret, body, signature_header))

verify_nextcloud_talk(secret, random, body, signature) ==
    Verified("nextcloud_talk", secret, random, body, signature,
             verify_nextcloud_talk_signature(secret, random, body, signature))

verify_linq(secret, body, timestamp, signature) ==
    Verified("linq", secret, timestamp, body, signature,
             verify_linq_signature(secret, body, timestamp, signature))

SigInit == sig = NoSig
SigIdle == sig = NoSig
SigNext ==
    \/ \E k \in Secrets, body \in Bodies, s \in Signatures("whatsapp") :
           verify_whatsapp(k, body, s)
    \/ \E k \in Secrets, salt \in Salts, body \in Bodies, s \in Signatures("nextcloud_talk") :
           verify_nextcloud_talk(k, salt, body, s)
    \/ \E k \in Secrets, salt \in Salts, body \in Bodies, s \in Signatures("linq") :
           verify_linq(k, body, salt, s)

(***************************************************************************)
(* Calls of the slash recognizer with "/remind <n><unit> <text>"           *)
(***************************************************************************)
VARIABLES parsed

\* The amounts as written: zero, small ones, ones with leading zeros, and the
\* ones around the largest duration of each unit and around i64::MAX.
AmountTexts ==
    { << "0" >>, << "0", "0" >>, << "1" >>, << "5" >>, << "0", "0", "7" >>,
      DecText(DecTimes(MaxDurationSeconds, 1)),
      << "9", "2", "2", "3", "3", "7", "2", "0", "3", "6", "8", "5", "4", "7", "7", "6" >>,
      << "1", "5", "3", "7", "2", "2", "8", "6", "7", "2", "8", "0", "9", "1", "2" >>,
      << "1", "5", "3", "7", "2", "2", "8", "6", "7", "2", "8", "0", "9", "1", "3" >>,
      DecText(I64_MAX),
      << "9", "2", "2", "3", "3", "7", "2", "0", "3", "6", "8", "5", "4", "7", "7", "5", "8", "0", "8" >>,
      << "1", "0", "0", "0", "0", "0", "0", "0", "0", "0", "0", "0", "0", "0", "0", "0", "0", "0", "0", "0", "0" >> }

UnitTexts ==
    { << "s" >>, << "m", "i", "n" >>, << "h", "r", "s" >>, << "d", "a", "y", "s" >>,
      << "w" >>, << "m", "o" >> }

MessageTexts ==
    { << "g", "o" >>, << "t", "o", " ", "g", "o", "." >>, << "t", "o", " ", "." >>, << >> }

SlashInput(n, gap, unit, text) == SlashRemind \o n \o gap \o unit \o << " " >> \o text

NoParse == [n |-> << >>, unit |-> << >>, text |-> << >>, result |-> IntentNone]

\* parse_slash_reminder_intent on one input.
slash_remind(n, gap, unit, text) ==
    parsed' = [n |-> n, unit |-> unit, text |-> text,
               result |-> parse_slash_reminder_intent(SlashInput(n, gap, unit, text))]

ParserInit == parsed = NoParse
ParserIdle == parsed = NoParse
ParserNext ==
    \E n \in AmountTexts, gap \in {<< >>, << " " >>}, unit \in UnitTexts, text \in MessageTexts :
        slash_remind(n, gap, unit, text)

(***************************************************************************)
(* The reminder path of poll_once for one claimed record, with its times.  *)
(*   tick_pc       the position in poll_once after the claim               *)
(*   tick_rec      the claimed record: threadId, content, status           *)
(*   tick_clock    the seconds since the worker started                    *)
(*   tick_run_at   run_at of schedule_pocketbase_chat_reminder             *)
(*   jobs          the scheduler's jobs                                    *)
(*   tick_replies  the assistant records written                           *)
(*   tick_agent    the calls of Agent.Process                              *)
(*   tick_failed   whether a scheduler or DocStore call failed             *)
(***************************************************************************)
VARIABLES tick_pc, tick_rec, tick_clock, tick_run_at, jobs, tick_replies,
          tick_agent, tick_failed

tickVars == << tick_pc, tick_rec, tick_clock, tick_run_at, jobs, tick_replies,
               tick_agent, tick_failed >>

MaxTickClock == 2

RECURSIVE AddCarry(_, _, _)
AddCarry(a, b, carry) ==
    IF a = << >> /\ b = << >> THEN IntDecimal(carry)
    ELSE LET x == IF a = << >> THEN 0 ELSE a[Len(a)]
             y == IF b = << >> THEN 0 ELSE b[Len(b)]
             v == x + y + carry
         IN Append(AddCarry(SubSeq(a, 1, Len(a) - 1), SubSeq(b, 1, Len(b) - 1),
                            v \div 10),
                   v % 10)
DecPlus(a, b) == StripZeros(AddCarry(a, b, 0))

\* Utc::now() when the worker starts, in seconds since 1970.
StartInstant == << 1, 7, 9, 3, 8, 3, 6, 8, 0, 0 >>
UtcNow(elapsed) == DecPlus(StartInstant, IntDecimal(elapsed))

\* The last second of chrono's DateTime<Utc>, the end of the year 262143.
MaxInstant == << 8, 2, 1, 0, 2, 9, 8, 4, 1, 2, 7, 9, 9 >>
InstantPanic == << -1 >>

\* DateTime + TimeDelta: checked_add_signed(rhs).expect("overflowed")
DateTimeAdd(instant, delay) ==
    IF DecLess(MaxInstant, DecPlus(instant, delay)) THEN InstantPanic
    ELSE DecPlus(instant, delay)

TickContents ==
    { SlashInput(<< "5" >>, << >>, << "m" >>, << "g", "o" >>),
      SlashInput(<< "9", "0", "0", "0", "0", "0", "0", "0", "0", "0", "0", "0", "0" >>,
                 << >>, << "s" >>, << "g", "o" >>),
      << "h", "i" >> }
TickIntent == [content \in TickContents |-> parse_reminder_intent(content)]

NoThread == << "<none>" >>
DefaultThread == << "d", "e", "f", "a", "u", "l", "t" >>
ThreadIds == { NoThread, << " " >>, << "t", "1" >>, << " ", "t", "1", " " >> }

\* record.thread_id.as_deref().map(str::trim).filter(|v| !v.is_empty())
\*     .unwrap_or("default")
thread_id(raw) ==
    IF raw = NoThread \/ StrTrim(raw) = << >> THEN DefaultThread ELSE StrTrim(raw)

NoDelivery == [mode |-> "none", channel |-> "none", to |-> << >>, best_effort |-> FALSE]
PocketbaseDelivery(thread) ==
    [mode |-> "announce", channel |-> "pocketbase", to |-> thread, best_effort |-> TRUE]

\* poll_once after the claim: the content is parsed; a reminder goes to the
\* scheduler, anything else to the agent.
tick_route ==
    /\ tick_pc = "claimed"
    /\ tick_pc' = IF TickIntent[tick_rec.content] = IntentNone THEN "agent" ELSE "schedule"
    /\ UNCHANGED << tick_rec, tick_clock, tick_run_at, jobs, tick_replies, tick_agent,
                    tick_failed >>

\* schedule_pocketbase_chat_reminder: run_at and cron::add_once_at.
reminder_add_once_at(o) ==
    /\ tick_pc = "schedule"
    /\ LET run_at == DateTimeAdd(UtcNow(tick_clock), TickIntent[tick_rec.content].delay)
       IN IF run_at = InstantPanic
          THEN /\ tick_pc' = "panicked"
               /\ UNCHANGED << tick_run_at, jobs, tick_failed >>
          ELSE /\ tick_run_at' = run_at
               /\ IF o = "ok"
                  THEN /\ jobs' = Append(jobs, [run_at |-> run_at, once |-> TRUE,
                                                delivery |-> NoDelivery])
                       /\ tick_pc' = "update"
                       /\ UNCHANGED tick_failed
                  ELSE /\ tick_pc' = "write_error"
                       /\ tick_failed' = TRUE
                       /\ UNCHANGED jobs
    /\ UNCHANGED << tick_rec, tick_clock, tick_replies, tick_agent >>

\* schedule_pocketbase_chat_reminder: cron::update_job with the name and the
\* delivery.
reminder_update_job(o) ==
    /\ tick_pc = "update"
    /\ IF o = "ok"
       THEN /\ jobs' = [jobs EXCEPT ![Len(jobs)].delivery =
                            PocketbaseDelivery(thread_id(tick_rec.thread))]
            /\ tick_pc' = "write"
            /\ UNCHANGED tick_failed
       ELSE /\ tick_pc' = "write_error"
            /\ tick_failed' = TRUE
            /\ UNCHANGED jobs
    /\ UNCHANGED << tick_rec, tick_clock, tick_run_at, tick_replies, tick_agent >>

\* poll_once, Ok arm: create_record of the confirmation; `?` ends the tick.
\* Err arm: create_record of the error record, its result dropped.
reminder_create_record(o) ==
    /\ tick_pc \in {"write", "write_error"}
    /\ IF o = "ok"
       THEN /\ tick_replies' =
                   Append(tick_replies,
                          [role |-> "assistant", threadId |-> thread_id(tick_rec.thread),
                           status |-> IF tick_pc = "write" THEN "done" ELSE "error",
                           replyToId |-> tick_rec.id])
            /\ UNCHANGED tick_failed
       ELSE /\ tick_failed' = TRUE
            /\ UNCHANGED tick_replies
    /\ tick_pc' = IF tick_pc = "write_error" THEN "patch_error"
                  ELSE IF o = "ok" THEN "patch" ELSE "aborted"
    /\ UNCHANGED << tick_rec, tick_clock, tick_run_at, jobs, tick_agent >>

\* poll_once: patch_record of the source, done or error; `?` ends the tick.
reminder_patch_record(o) ==
    /\ tick_pc \in {"patch", "patch_error"}
    /\ IF o = "ok"
       THEN /\ tick_rec' = [tick_rec EXCEPT !.status =
                                IF tick_pc = "patch" THEN "done" ELSE "error"]
            /\ tick_pc' = "continue"
            /\ UNCHANGED tick_failed
       ELSE /\ tick_pc' = "aborted"
            /\ tick_failed' = TRUE
            /\ UNCHANGED tick_rec
    /\ UNCHANGED << tick_clock, tick_run_at, jobs, tick_replies, tick_agent >>

\* poll_once: the agent path of a record that is no reminder.
tick_agent_process ==
    /\ tick_pc = "agent"
    /\ tick_agent' = tick_agent + 1
    /\ tick_pc' = "continue"
    /\ UNCHANGED << tick_rec, tick_clock, tick_run_at, jobs, tick_replies, tick_failed >>

\* Time passes between the worker's steps.
tick_clock_advance ==
    /\ tick_clock < MaxTickClock
    /\ tick_pc \notin {"idle", "continue", "aborted", "panicked"}
    /\ tick_clock' = tick_clock + 1
    /\ UNCHANGED << tick_pc, tick_rec, tick_run_at, jobs, tick_replies, tick_agent,
                    tick_failed >>

TickIdle ==
    /\ tick_pc = "idle"
    /\ tick_rec = [id |-> 0, thread |-> NoThread, content |-> << >>, status |-> "none"]
    /\ tick_clock = 0
    /\ tick_run_at = << >>
    /\ jobs = << >>
    /\ tick_replies = << >>
    /\ tick_agent = 0
    /\ tick_failed = FALSE

\* A record the worker has claimed: its status is processing.
TickInit ==
    /\ tick_pc = "claimed"
    /\ \E thread \in ThreadIds, content \in TickContents :
           tick_rec = [id |-> 1, thread |-> thread, content |-> content,
                       status |-> "processing"]
    /\ tick_clock = 0
    /\ tick_run_at = << >>
    /\ jobs = << >>
    /\ tick_replies = << >>
    /\ tick_agent = 0
    /\ tick_failed = FALSE

TickNext ==
    \/ tick_route
    \/ \E o \in Outcomes : reminder_add_once_at(o)
    \/ \E o \in Outcomes : reminder_update_job(o)
    \/ \E o \in Outcomes : reminder_create_record(o)
    \/ \E o \in Outcomes : reminder_patch_record(o)
    \/ tick_agent_process
    \/ tick_clock_advance

(***************************************************************************)
(* The channel execution context, a tokio task-local                       *)
(*   scopes     per task, the contexts of the scopes it is inside, the     *)
(*              innermost last                                             *)
(*   ctx_call   the last call of default_cron_delivery_for_current_channel *)
(***************************************************************************)
VARIABLES scopes, ctx_call

contextVars == << scopes, ctx_call >>

Tasks == {1, 2}
MaxScopes == 2

Pocketbase == << "p", "o", "c", "k", "e", "t", "b", "a", "s", "e" >>
Channels ==
    { Pocketbase,
      << " ", "P", "o", "c", "k", "e", "t", "B", "a", "s", "e" >>,
      << "t", "g" >> }
Recipients == { << "t", "1" >>, << " ", "t", "1" >>, << " " >> }

ChannelExecutionContext(channel, recipient) == [channel |-> channel, recipient |-> recipient]
NoContext == ChannelExecutionContext(<< >>, << >>)

\* CHANNEL_EXECUTION_CONTEXT.try_with(Clone::clone).ok(), were the context
\* one value shared by the tasks.
current_channel_execution_context_shared(task) ==
    IF \E t \in Tasks : scopes[t] # << >>
    THEN Last(scopes[CHOOSE t \in Tasks : scopes[t] # << >>])
    ELSE NoContext

\* CHANNEL_EXECUTION_CONTEXT.try_with(Clone::clone).ok(): the innermost
\* scope of the calling task.
current_channel_execution_context(task) ==
    IF scopes[task] = << >> THEN NoContext ELSE Last(scopes[task])

default_cron_delivery_for_current_channel(task) ==
    LET ctx == current_channel_execution_context(task)
        channel == to_ascii_lowercase(StrTrim(ctx.channel))
        recipient == StrTrim(ctx.recipient)
    IN IF ctx = NoContext THEN NoDelivery
       ELSE IF recipient = << >> THEN NoDelivery
       ELSE IF channel = Pocketbase THEN PocketbaseDelivery(recipient)
       ELSE NoDelivery

NoContextCall == [task |-> 0, inside |-> FALSE, ctx |-> NoContext, result |-> NoDelivery]

\* with_channel_execution_context: the future starts inside the scope.
scope_enter(task, ctx) ==
    /\ Len(scopes[1]) + Len(scopes[2]) < MaxScopes
    /\ scopes' = [scopes EXCEPT ![task] = Append(@, ctx)]
    /\ UNCHANGED ctx_call

\* with_channel_execution_context: the future is done, the scope ends.
scope_exit(task) ==
    /\ scopes[task] # << >>
    /\ scopes' = [scopes EXCEPT ![task] = SubSeq(@, 1, Len(@) - 1)]
    /\ UNCHANGED ctx_call

\* A task calls default_cron_delivery_for_current_channel.
delivery_call(task) ==
    /\ ctx_call' = [task |-> task,
                    inside |-> scopes[task] # << >>,
                    ctx |-> IF scopes[task] = << >> THEN NoContext ELSE Last(scopes[task]),
                    result |-> default_cron_delivery_for_current_channel(task)]
    /\ UNCHANGED scopes

ContextInit ==
    /\ scopes = [t \in Tasks |-> << >>]
    /\ ctx_call = NoContextCall
ContextIdle == ContextInit
ContextNext ==
    \/ \E t \in Tasks, channel \in Channels, recipient \in Recipients :
           scope_enter(t, ChannelExecutionContext(channel, recipient))
    \/ \E t \in Tasks : scope_exit(t)
    \/ \E t \in Tasks : delivery_call(t)

(***************************************************************************)
(* The router of the running gateway and the third-party channel handlers  *)
(*   clients   the channels whose client is present in AppState            *)
(*   answered  the last request and its response                           *)
(***************************************************************************)
VARIABLES clients, answered

routeVars == << clients, answered >>

ThirdParty == {"whatsapp", "linq", "wati", "nextcloud_talk"}
Methods == {"GET", "POST"}

WebhookPath(channel) ==
    CASE channel = "whatsapp" -> "/whatsapp"
      [] channel = "linq" -> "/linq"
      [] channel = "wati" -> "/wati"
      [] channel = "nextcloud_talk" -> "/nextcloud-talk"

NotConfigured(channel) ==
    CASE channel = "whatsapp" -> "WhatsApp not configured"
      [] channel = "linq" -> "Linq not configured"
      [] channel = "wati" -> "WATI not configured"
      [] channel = "nextcloud_talk" -> "Nextcloud Talk not configured"

RequestPaths == {WebhookPath(c) : c \in ThirdParty} \cup {"/health", "/pair"}

\* A response: its status, the kind of its body, the `error` of a JSON body
\* and whether the agent was invoked.
Response(status, body, error, agent) ==
    [status |-> status, body |-> body, error |-> error, agent |-> agent]

\* handle_whatsapp_message, handle_linq_webhook, handle_wati_webhook and
\* handle_nextcloud_talk_webhook: 404 without a client; with one, the
\* message is verified, parsed and may reach the agent.
handle_channel_webhook(channel, present, processed) ==
    IF ~present THEN Response(404, "json", NotConfigured(channel), FALSE)
    ELSE IF processed THEN Response(200, "json", "", TRUE)
    ELSE Response(401, "json", "Invalid signature", FALSE)

\* handle_whatsapp_verify and handle_wati_verify: 404 with a text body.
handle_channel_verify(channel, present) ==
    IF ~present THEN Response(404, "text", "", FALSE)
    ELSE Response(200, "text", "", FALSE)

\* The routes of core_router that the requests of the model can meet.
CoreRoutes == { << "GET", "/health" >>, << "POST", "/pair" >> }
\* run_gateway's app: core_router, media_router, /_app and the fallback.
Routes == CoreRoutes

ChannelOf(path) == CHOOSE c \in ThirdParty : WebhookPath(c) = path

\* static_files::handle_spa_fallback: the UI's index page, or 404 when the
\* page is not there.
handle_spa_fallback(found) ==
    IF found THEN Response(200, "html", "", FALSE) ELSE Response(404, "text", "", FALSE)

\* axum's dispatch: the handler of (method, path); 405 when the path has
\* routes for other methods only; else the fallback, get(handle_spa_fallback),
\* which answers 405 to a method other than GET.
Dispatch(routes, method, path, present, processed, found) ==
    IF << method, path >> \in routes
    THEN IF path = "/health" THEN Response(handle_health(NoToken), "json", "", FALSE)
         ELSE IF path = "/pair" THEN Response(403, "json", "Invalid pairing code", FALSE)
         ELSE IF method = "POST"
              THEN handle_channel_webhook(ChannelOf(path), present, processed)
         ELSE handle_channel_verify(ChannelOf(path), present)
    ELSE IF \E m \in Methods : << m, path >> \in routes
         THEN Response(405, "empty", "", FALSE)
    ELSE IF method = "GET" THEN handle_spa_fallback(found)
    ELSE Response(405, "empty", "", FALSE)

NoAnswer == [method |-> "none", path |-> "none", response |-> Response(0, "none", "", FALSE)]

\* One request to the running gateway.
gateway_request(method, path, processed, found) ==
    /\ answered' =
           [method |-> method, path |-> path,
            response |-> Dispatch(Routes, method, path,
                                  \E c \in clients : WebhookPath(c) = path,
                                  processed, found)]
    /\ UNCHANGED clients

\* AppState: the clients the configuration enables.
RouteInit ==
    /\ clients \in SUBSET ThirdParty
    /\ answered = NoAnswer
RouteIdle ==
    /\ clients = {}
    /\ answered = NoAnswer
RouteNext ==
    \E method \in Methods, path \in RequestPaths, processed, found \in BOOLEAN :
        gateway_request(method, path, processed, found)

channelVars == << sig, contextVars, routeVars >>
ChannelIdle == SigIdle /\ ContextIdle /\ RouteIdle

reminderVars == << parsed, tickVars >>
ReminderIdle == ParserIdle /\ TickIdle

moreVars == << channelVars, reminderVars >>
MoreIdle == ChannelIdle /\ ReminderIdle

lifeVars == << desktopVars, runVars, clientVars, moreVars >>
LifeIdle == DesktopIdle /\ RunIdle /\ ClientIdle /\ MoreIdle

vars == << workerVars, limiterVars, idemVars, guardVars, webVars, pairVars,
          pathVars, keyVars, lifeVars >>

WorkerIdle ==
    /\ recs = << >>
    /\ newestFirst = FALSE
    /\ wpc = "sleep"
    /\ page = 1
    /\ fetched = << >>
    /\ pending = << >>
    /\ cur = 0
    /\ branch = "none"
    /\ failures = 0
    /\ handed = << >>
    /\ pass = << >>
    /\ poll = NewPoll(FALSE)

GatewayIdle == GuardIdle /\ WebIdle /\ PairIdle /\ PathIdle /\ KeyIdle
gatewayVars == << guardVars, webVars, pairVars, pathVars, keyVars >>

\* The chat worker against the DocStore.
Init == WorkerInit /\ LimiterIdle /\ IdemIdle /\ GatewayIdle /\ LifeIdle
Next == WorkerNext /\ UNCHANGED << limiterVars, idemVars, gatewayVars, lifeVars >>
Spec == Init /\ [][Next]_vars

\* The chat worker, its task being scheduled again and again.
SpecWorkerFair ==
    Init /\ [][Next]_vars
         /\ WF_vars(WorkerStep /\ UNCHANGED << limiterVars, idemVars, gatewayVars, lifeVars >>)

\* The chat worker against a DocStore, scheduler and agent whose calls all
\* succeed: the failure budget is used up from the start.
InitReliable ==
    /\ recs = << >>
    /\ newestFirst \in BOOLEAN
    /\ wpc = "sleep"
    /\ page = 1
    /\ fetched = << >>
    /\ pending = << >>
    /\ cur = 0
    /\ branch = "none"
    /\ failures = MaxFailures
    /\ handed = << >>
    /\ pass = << >>
    /\ \E auto_save \in BOOLEAN : poll = NewPoll(auto_save)
    /\ LimiterIdle /\ IdemIdle /\ GatewayIdle /\ LifeIdle
SpecWorkerReliable ==
    InitReliable /\ [][Next]_vars
         /\ WF_vars(WorkerStep /\ UNCHANGED << limiterVars, idemVars, gatewayVars, lifeVars >>)

\* The sliding-window limiter.
InitLimiter == WorkerIdle /\ LifeIdle /\ LimiterInit /\ IdemIdle /\ GatewayIdle
NextLimiter == LimiterNext /\ UNCHANGED << workerVars, lifeVars, idemVars, gatewayVars >>
SpecLimiter == InitLimiter /\ [][NextLimiter]_vars

\* The sliding-window limiter called from several threads; it was built
\* at time 0 and the first call comes a tick later.  compare: a second
\* limiter is given the calls on TrackedKey only.
InitLimiterThreadsWith(limits, compare) ==
    /\ WorkerIdle /\ LifeIdle /\ IdemIdle /\ GatewayIdle
    /\ clock = 1
    /\ requests = << >>
    /\ last_sweep = 0
    /\ limit_per_window \in limits
    /\ max_keys \in {ClampMaxKeys(c) : c \in 0..MaxKeysConfig}
    /\ lim_run = NoRun
    /\ lim_calls = [t \in Threads |-> NoCall]
    /\ lim_obs = [NoObs(last_sweep) EXCEPT !.compare = compare]
NextLimiterThreads == LimiterThreadsNext /\ UNCHANGED << workerVars, lifeVars, idemVars, gatewayVars >>

\* The sliding-window limiter next to the history of the calls on TrackedKey.
InitLimiterHistory ==
    /\ WorkerIdle /\ LifeIdle /\ IdemIdle /\ GatewayIdle
    /\ clock = 0
    /\ requests = << >>
    /\ last_sweep = clock
    /\ limit_per_window \in 1..MaxLimit
    /\ max_keys = ClampMaxKeys(MaxKeysConfig)
    /\ lim_run = NoRun
    /\ lim_calls = [t \in Threads |-> NoCall]
    /\ lim_obs = [NoObs(clock) EXCEPT !.hist.on = TRUE]
SpecLimiterHistory == InitLimiterHistory /\ [][NextLimiter]_vars

\* One request per window and key.
InitLimiterThreads == InitLimiterThreadsWith({1}, FALSE)
SpecLimiterThreads == InitLimiterThreads /\ [][NextLimiterThreads]_vars

\* MaxLimit requests per window and key.
InitLimiterBurst == InitLimiterThreadsWith({MaxLimit}, FALSE)
SpecLimiterBurst == InitLimiterBurst /\ [][NextLimiterThreads]_vars

\* One request per window and key, next to the second limiter.
InitLimiterCompared == InitLimiterThreadsWith({1}, TRUE)
SpecLimiterCompared == InitLimiterCompared /\ [][NextLimiterThreads]_vars

\* The idempotency memory.
InitIdem ==
    /\ WorkerIdle /\ LifeIdle /\ IdemInit /\ GatewayIdle
    /\ clock \in {0, 1}
    /\ requests = << >> /\ last_sweep = 0 /\ limit_per_window = 0 /\ max_keys = 1
    /\ lim_run = NoRun
    /\ lim_calls = [t \in Threads |-> NoCall]
    /\ lim_obs = NoObs(clock)
NextIdem ==
    IdemNext /\ UNCHANGED << workerVars, lifeVars, requests, last_sweep, limit_per_window,
                             max_keys, lim_run, lim_calls, lim_obs, gatewayVars >>
SpecIdem == InitIdem /\ [][NextIdem]_vars

\* The idempotency memory, called from several threads.
InitIdemThreads == InitIdem
NextIdemThreads ==
    IdemThreadsNext /\ UNCHANGED << workerVars, lifeVars, requests, last_sweep, limit_per_window,
                                    max_keys, lim_run, lim_calls, lim_obs, gatewayVars >>
SpecIdemThreads == InitIdemThreads /\ [][NextIdemThreads]_vars

\* POST /webhook, requests with all kinds of credentials.
InitWebhookAuth ==
    /\ WorkerIdle /\ LifeIdle /\ IdemIdle /\ PairIdle /\ PathIdle /\ KeyIdle
    /\ clock = RATE_LIMIT_WINDOW
    /\ requests = << >> /\ last_sweep = clock /\ max_keys = 1 /\ lim_run = NoRun
    /\ lim_calls = [t \in Threads |-> NoCall]
    /\ lim_obs = NoObs(clock)
    /\ limit_per_window \in {0, 1}
    /\ require_pairing \in BOOLEAN
    /\ guard_tokens = {Token(1)}
    /\ pairing_code = NoCode /\ codes_made = 0 /\ failures_by_key = 0
    /\ webhook_secret_hash \in {NoHash, hash_webhook_secret("s3")}
    /\ web = [r \in Reqs |-> NewRequest]
    /\ idem_seq = 0
NextWebhookAuth ==
    /\ \/ \E r \in {1, 2}, auth \in AuthHeaders, secret \in SecretHeaders,
             body \in BOOLEAN, idem \in {NoHeader, "a"} :
             handle_webhook(r, "a", auth, secret, body, idem)
       \/ \E r \in Reqs : webhook_auth(r)
       \/ \E r \in Reqs : webhook_idempotency(r)
       \/ \E r \in Reqs, o \in Outcomes : run_gateway_chat_simple(r, o)
    /\ UNCHANGED << workerVars, lifeVars, pairVars, pathVars, keyVars >>
SpecWebhookAuth == InitWebhookAuth /\ [][NextWebhookAuth]_vars

\* POST /webhook, authorized requests with idempotency keys, over time.
InitWebhookIdem ==
    /\ WorkerIdle /\ LifeIdle /\ PairIdle /\ PathIdle /\ KeyIdle
    /\ clock = 0
    /\ requests = << >> /\ last_sweep = 0 /\ max_keys = 1 /\ lim_run = NoRun
    /\ lim_calls = [t \in Threads |-> NoCall]
    /\ lim_obs = NoObs(clock)
    /\ limit_per_window = 0
    /\ idem_keys = << >>
    /\ idem_max_keys \in {1, 2}
    /\ idem_last = [key |-> NoKey, at |-> 0, res |-> FALSE, evicted |-> NoKey]
    /\ idem_mark = [at |-> -1, evicted |-> FALSE]
    /\ idem_inserted = << >>
    /\ idem_calls = [t \in Threads |-> NoCall]
    /\ require_pairing = TRUE
    /\ guard_tokens = {Token(1)}
    /\ pairing_code = NoCode /\ codes_made = 0 /\ failures_by_key = 0
    /\ webhook_secret_hash = hash_webhook_secret("s3")
    /\ web = [r \in Reqs |-> NewRequest]
    /\ idem_seq = 0
NextWebhookIdem ==
    /\ \/ \E r \in Reqs, idem \in IdemHeaders :
             handle_webhook(r, "a", << "Bearer", Token(1) >>, " s3 ", TRUE, idem)
       \/ \E r \in Reqs : webhook_auth(r)
       \/ \E r \in Reqs : webhook_idempotency(r)
       \/ \E r \in Reqs, o \in Outcomes : run_gateway_chat_simple(r, o)
       \/ WebhookTick
    /\ UNCHANGED << workerVars, lifeVars, pairVars, pathVars, keyVars >>
SpecWebhookIdem == InitWebhookIdem /\ [][NextWebhookIdem]_vars

\* POST /pair and POST /pair/new-code.
InitPair ==
    /\ WorkerIdle /\ LifeIdle /\ LimiterIdle /\ IdemIdle /\ WebIdle /\ PathIdle /\ KeyIdle
    /\ require_pairing = TRUE
    /\ guard_tokens \in {{}, {Token(1)}}
    /\ pairing_code = Code(1) /\ codes_made = 1 /\ failures_by_key = 0
    /\ cfg_mem = guard_tokens /\ cfg_file = guard_tokens
    /\ pair = [p \in PairReqs |-> NewPair]
NextPair ==
    PairNext /\ UNCHANGED << workerVars, lifeVars, limiterVars, idemVars, webVars,
                             pathVars, keyVars >>
SpecPair == InitPair /\ [][NextPair]_vars

\* POST /webhook and POST /pair side by side: requests that are admitted
\* and requests that are turned away.
InitAdmission ==
    /\ WorkerIdle /\ LifeIdle /\ IdemIdle /\ PathIdle /\ KeyIdle
    /\ clock = RATE_LIMIT_WINDOW
    /\ requests = << >> /\ last_sweep = clock /\ max_keys = 1 /\ lim_run = NoRun
    /\ lim_calls = [t \in Threads |-> NoCall]
    /\ lim_obs = NoObs(clock)
    /\ limit_per_window \in {0, 1}
    /\ require_pairing = TRUE
    /\ guard_tokens = {Token(1)}
    /\ pairing_code = Code(1) /\ codes_made = 1 /\ failures_by_key = 0
    /\ cfg_mem = guard_tokens /\ cfg_file = guard_tokens
    /\ pair = [p \in PairReqs |-> NewPair]
    /\ webhook_secret_hash = hash_webhook_secret("s3")
    /\ web = [r \in Reqs |-> NewRequest]
    /\ idem_seq = 0
NextAdmission ==
    \/ /\ \/ \E r \in {1, 2}, auth \in {<< "Bearer", Token(1) >>, << "Bearer", Token(9) >>},
                secret \in {" s3 ", "bad"}, body \in BOOLEAN :
                handle_webhook(r, "a", auth, secret, body, "a")
          \/ \E r \in Reqs : webhook_auth(r)
          \/ \E r \in Reqs : webhook_idempotency(r)
          \/ \E r \in Reqs, o \in Outcomes : run_gateway_chat_simple(r, o)
       /\ UNCHANGED << workerVars, lifeVars, pairVars, pathVars, keyVars >>
    \/ /\ \/ \E p \in PairReqs, c \in {Code(0), Code(1)}, a \in BOOLEAN :
                handle_pair(p, c, a)
          \/ \E p \in PairReqs, l \in BOOLEAN : try_pair(p, l)
          \/ \E p \in PairReqs : persist_pairing_tokens(p)
          \/ \E p \in PairReqs, o \in Outcomes : Config_save(p, o)
          \/ \E p \in PairReqs : persist_pairing_tokens_commit(p)
       /\ UNCHANGED << workerVars, lifeVars, limiterVars, idemVars, webVars,
                       pathVars, keyVars >>
SpecAdmission == InitAdmission /\ [][NextAdmission]_vars

\* The media and library endpoints over a file system.
InitPaths ==
    /\ WorkerIdle /\ LifeIdle /\ LimiterIdle /\ IdemIdle /\ GuardIdle /\ WebIdle /\ PairIdle
    /\ KeyIdle /\ PathInit
NextPaths ==
    PathNext /\ UNCHANGED << workerVars, lifeVars, limiterVars, idemVars, guardVars,
                             webVars, pairVars, keyVars >>
SpecPaths == InitPaths /\ [][NextPaths]_vars

\* Client key derivation for the requests of a connection.
InitClientKey ==
    /\ WorkerIdle /\ LifeIdle /\ LimiterIdle /\ IdemIdle /\ GuardIdle /\ WebIdle /\ PairIdle
    /\ PathIdle /\ KeyInit
NextClientKey ==
    KeyNext /\ UNCHANGED << workerVars, lifeVars, limiterVars, idemVars, guardVars,
                            webVars, pairVars, pathVars >>
SpecClientKey == InitClientKey /\ [][NextClientKey]_vars

\* The desktop supervisor from setup to the shutdown triggers.
InitDesktop ==
    /\ WorkerIdle /\ LimiterIdle /\ IdemIdle /\ GatewayIdle /\ RunIdle /\ ClientIdle
    /\ MoreIdle /\ DesktopInit
NextDesktop ==
    DesktopNext /\ UNCHANGED << workerVars, limiterVars, idemVars, gatewayVars, runVars,
                                clientVars, moreVars >>
SpecDesktop == InitDesktop /\ [][NextDesktop]_vars

\* One run of run_gateway.
InitRunGateway ==
    /\ WorkerIdle /\ LimiterIdle /\ IdemIdle /\ GatewayIdle /\ DesktopIdle /\ ClientIdle
    /\ MoreIdle /\ RunInit
NextRunGateway ==
    RunNext /\ UNCHANGED << workerVars, limiterVars, idemVars, gatewayVars, desktopVars,
                            clientVars, moreVars >>
SpecRunGateway == InitRunGateway /\ [][NextRunGateway]_vars

\* The desktop client: the token bootstrap, then calls of
\* generate_mobile_pairing_qr.
InitDesktopClient ==
    /\ WorkerIdle /\ LimiterIdle /\ IdemIdle /\ WebIdle /\ PathIdle /\ KeyIdle
    /\ DesktopIdle /\ RunIdle /\ MoreIdle
    /\ ClientInit
NextDesktopClient ==
    ClientNext /\ UNCHANGED << workerVars, limiterVars, idemVars, webVars, pathVars,
                               keyVars, desktopVars, runVars, moreVars >>
SpecDesktopClient == InitDesktopClient /\ [][NextDesktopClient]_vars

\* Calls of the signature verifiers.
InitSignatures ==
    /\ WorkerIdle /\ LimiterIdle /\ IdemIdle /\ GatewayIdle
    /\ DesktopIdle /\ RunIdle /\ ClientIdle /\ ReminderIdle /\ ContextIdle
    /\ RouteIdle /\ SigInit
NextSignatures ==
    SigNext /\ UNCHANGED << workerVars, limiterVars, idemVars, gatewayVars, desktopVars,
                            runVars, clientVars, reminderVars, contextVars, routeVars >>
SpecSignatures == InitSignatures /\ [][NextSignatures]_vars

\* Tasks entering and leaving channel execution contexts.
InitContext ==
    /\ WorkerIdle /\ LimiterIdle /\ IdemIdle /\ GatewayIdle
    /\ DesktopIdle /\ RunIdle /\ ClientIdle /\ ReminderIdle /\ SigIdle
    /\ RouteIdle /\ ContextInit
NextContext ==
    ContextNext /\ UNCHANGED << workerVars, limiterVars, idemVars, gatewayVars, desktopVars,
                                runVars, clientVars, reminderVars, sig, routeVars >>
SpecContext == InitContext /\ [][NextContext]_vars

\* Requests to the router of the running gateway.
InitRoutes ==
    /\ WorkerIdle /\ LimiterIdle /\ IdemIdle /\ GatewayIdle
    /\ DesktopIdle /\ RunIdle /\ ClientIdle /\ ReminderIdle /\ SigIdle /\ ContextIdle
    /\ RouteInit
NextRoutes ==
    RouteNext /\ UNCHANGED << workerVars, limiterVars, idemVars, gatewayVars, desktopVars,
                              runVars, clientVars, reminderVars, sig, contextVars >>
SpecRoutes == InitRoutes /\ [][NextRoutes]_vars

\* Calls of the slash recognizer.
InitSlashRemind ==
    /\ WorkerIdle /\ LimiterIdle /\ IdemIdle /\ GatewayIdle
    /\ DesktopIdle /\ RunIdle /\ ClientIdle /\ ChannelIdle /\ TickIdle
    /\ ParserInit
NextSlashRemind ==
    ParserNext /\ UNCHANGED << workerVars, limiterVars, idemVars, gatewayVars, desktopVars,
                               runVars, clientVars, channelVars, tickVars >>
SpecSlashRemind == InitSlashRemind /\ [][NextSlashRemind]_vars

\* The reminder path of one tick.
InitReminderTick ==
    /\ WorkerIdle /\ LimiterIdle /\ IdemIdle /\ GatewayIdle
    /\ DesktopIdle /\ RunIdle /\ ClientIdle /\ ChannelIdle /\ ParserIdle
    /\ TickInit
NextReminderTick ==
    TickNext /\ UNCHANGED << workerVars, limiterVars, idemVars, gatewayVars, desktopVars,
                             runVars, clientVars, channelVars, parsed >>
SpecReminderTick == InitReminderTick /\ [][NextReminderTick]_vars

(***************************************************************************)
(* Claims about the DocStore chat worker                                   *)
(***************************************************************************)
UserIds == {i \in RecIds : recs[i].role = "user"}
IdBound == MaxUserPosts * (2 + MAX_FETCH_PAGES)

IsPrefix(s, t) == Len(s) <= Len(t) /\ s = SubSeq(t, 1, Len(s))

\* C1: with a single worker, each user record id is handed to Agent.Process
\* or to the reminder scheduler at most once, whatever calls fail.
C1_AtMostOnce == \A id \in UserIds : handed[id] <= 1

\* C2: every user record the worker has PATCHed to processing eventually
\* reaches status done or error, also when a create or PATCH request fails.
UserStatus(id) ==
    IF id \in RecIds /\ recs[id].role = "user" THEN recs[id].status ELSE "none"

C2_ProcessingReachesTerminal ==
    \A id \in 1..IdBound :
        [](UserStatus(id) = "processing"
             => <>(UserStatus(id) \in {"done", "error"}))

\* C3: on the agent path the events of a record come in the order claim
\* PATCH, Agent.Process, assistant record write, terminal PATCH, each step
\* only after the earlier ones have finished and the claim PATCH has
\* succeeded.
AgentPathOrders ==
    { << "claim", "agent", w, "terminal" >> : w \in {"write", "write_failed"} }

C3_AgentPathOrder ==
    \A id \in UserIds :
        (\E k \in 1..Len(pass[id]) : pass[id][k] = "agent")
          => /\ \E t \in AgentPathOrders : IsPrefix(pass[id], t)
             /\ recs[id].status # "pending"

C3_Witness ==
    \E id \in UserIds :
        /\ pass[id] = << "claim", "agent", "write", "terminal" >>
        /\ recs[id].status = "done"
        /\ \E a \in RecIds : recs[a].role = "assistant" /\ recs[a].replyToId = id


(***************************************************************************)
(* Claims about the sliding-window limiter                                 *)
(***************************************************************************)
\* The latest call was the count-th call on TrackedKey of a run whose calls
\* all lie within one window.
RunWithinWindow ==
    /\ limit_per_window >= 1
    /\ lim_run.count >= 1
    /\ lim_run.last - lim_run.start < RATE_LIMIT_WINDOW

RepeatWithinTtl ==
    /\ idem_last.key = TrackedKey
    /\ idem_mark.at >= 0
    /\ idem_last.at - idem_mark.at < IDEMPOTENCY_TTL

\* C5 as claimed: after record_if_new(k) returned true, every later
\* record_if_new(k) less than ttl after it returns false, whatever the calls
\* on other keys.
C5_DuplicateAnyInterleaving == RepeatWithinTtl => idem_last.res = FALSE

\* C5 amended: after record_if_new(k) returned true, every later
\* record_if_new(k) less than ttl after it returns false, provided k was not
\* evicted for capacity in between.
C5_DuplicateUnlessEvicted ==
    RepeatWithinTtl /\ ~idem_mark.evicted => idem_last.res = FALSE

C5_Witness ==
    /\ RepeatWithinTtl /\ ~idem_mark.evicted
    /\ idem_last.res = FALSE
    /\ idem_last.at > idem_mark.at
    /\ Cardinality(DOMAIN idem_keys) = 2

(***************************************************************************)
(* Claims about POST /webhook                                              *)
(***************************************************************************)
IdemKey(r) == TrimmedHeader(web[r].idem)
Checked(r) == web[r].seq > 0

\* r2 asked the idempotency memory after r1, with the same key, less than
\* ttl after r1 did.
SameKeyWithinTtl(r1, r2) ==
    /\ Checked(r1) /\ Checked(r2)
    /\ IdemKey(r1) = IdemKey(r2)
    /\ web[r1].seq < web[r2].seq
    /\ web[r2].at - web[r1].at < IDEMPOTENCY_TTL

DuplicateAnswered(r) ==
    /\ web[r].pc = "done"
    /\ web[r].status = 200 /\ web[r].reply = "duplicate"
    /\ ~web[r].invoked

ProviderInvokedOnce(r) == web[r].isNew /\ (web[r].pc = "done" => web[r].invoked)

\* C6 as claimed: among the admitted /webhook requests with the same
\* idempotency key within ttl, in any interleaving, the provider is invoked
\* for exactly one and every other one is answered 200 duplicate without the
\* provider being invoked.
C6_ExactlyOnceAnyInterleaving ==
    /\ \A r1 \in Reqs, r2 \in Reqs :
          SameKeyWithinTtl(r1, r2) /\ web[r1].isNew => DuplicateAnswered(r2)
    /\ \A r \in Reqs : Checked(r) => ProviderInvokedOnce(r) \/ DuplicateAnswered(r)

\* C6 amended: the same, provided the key recorded by the request the
\* provider was invoked for is not evicted from the idempotency memory for
\* capacity while the others arrive.
C6_ExactlyOnceUnlessEvicted ==
    /\ \A r1 \in Reqs, r2 \in Reqs :
          SameKeyWithinTtl(r1, r2) /\ web[r1].isNew /\ ~web[r1].evicted
             => DuplicateAnswered(r2)
    /\ \A r \in Reqs : Checked(r) => ProviderInvokedOnce(r) \/ DuplicateAnswered(r)

C6_Witness ==
    /\ web[1].idem = "a" /\ web[1].invoked /\ web[1].pc = "done"
    /\ web[2].idem = "b" /\ web[2].isNew
    /\ web[3].idem = " a " /\ DuplicateAnswered(3)
    /\ SameKeyWithinTtl(1, 3) /\ web[3].at > web[1].at

\* The condition of C7 on a request: the bearer token and the secret header
\* as sent.
Authorized(q) ==
    /\ ~require_pairing \/ is_authenticated(BearerToken(q.auth))
    /\ \/ webhook_secret_hash = NoHash
       \/ /\ q.secret # NoHeader
          /\ hash_webhook_secret(q.secret) = webhook_secret_hash

\* The same with the secret header trimmed before it is hashed.
AuthorizedTrimmed(q) ==
    /\ ~require_pairing \/ is_authenticated(BearerToken(q.auth))
    /\ \/ webhook_secret_hash = NoHash
       \/ /\ TrimmedHeader(q.secret) # NoHeader
          /\ hash_webhook_secret(TrimmedHeader(q.secret)) = webhook_secret_hash

\* C7 as claimed: the provider is invoked only if pairing is not required or
\* the bearer token is authenticated, and no secret is configured or the
\* SHA-256 of the X-Webhook-Secret header equals the stored hash; in every
\* other case the answer is 401 and the provider is not invoked.
C7_AuthorizedOrAnswered401 ==
    \A r \in Reqs :
        /\ web[r].invoked => Authorized(web[r])
        /\ web[r].pc = "done" /\ ~Authorized(web[r])
              => web[r].status = 401 /\ ~web[r].invoked

\* C7 amended: the provider is invoked only if pairing is not required or the
\* bearer token is authenticated, and no secret is configured or the SHA-256
\* of the trimmed X-Webhook-Secret value equals the stored hash; in every
\* other case the provider is not invoked and the answer is 401, or 429 when
\* the rate limiter has refused the request before the credentials are read.
C7_AuthorizedTrimmedOr401Or429 ==
    \A r \in Reqs :
        /\ web[r].invoked => AuthorizedTrimmed(web[r])
        /\ web[r].pc = "done" /\ ~AuthorizedTrimmed(web[r])
              => /\ ~web[r].invoked
                 /\ web[r].status \in {401, 429}
                 /\ web[r].status = 429 => limit_per_window >= 1

C7_Witness ==
    /\ require_pairing /\ webhook_secret_hash # NoHash
    /\ web[1].invoked /\ web[1].secret = " s3 " /\ web[1].status = 200
    /\ web[2].pc = "done" /\ web[2].secret = "bad" /\ web[2].status = 401
    /\ web[2].auth = << "Bearer", Token(1) >>

(***************************************************************************)
(* Claims about POST /pair                                                 *)
(***************************************************************************)
\* Every /pair request that arrived has been answered, at least one minted a
\* token, and every one that minted a token reported persisted: true.
AllPairsPersisted ==
    /\ \A p \in PairReqs : pair[p].pc \in {"new", "done"}
    /\ \E p \in PairReqs : pair[p].token # NoToken
    /\ \A p \in PairReqs : pair[p].token # NoToken => pair[p].persisted

\* C8: once all /pair requests have completed, also those whose persistence
\* overlapped in time, the paired_tokens of the config file and of the shared
\* in-memory config both equal the token set of the pairing guard.
C8_PersistedTokensEqualGuard ==
    AllPairsPersisted => cfg_file = guard_tokens /\ cfg_mem = guard_tokens

(***************************************************************************)
(* Claims about the path resolvers                                         *)
(***************************************************************************)
\* The place lies under the roots of the endpoint.
InRoots(endpoint, place) ==
    IF endpoint = "media"
    THEN StartsWith(place, Workspace \o << "journals" >>)
    ELSE /\ StartsWith(place, Workspace)
         /\ Len(place) > Len(Workspace)
         /\ place[Len(Workspace) + 1] \in AllowedRoots

\* C9: when the requested path, its ".." components and symbolic links
\* resolved, designates a place outside the workspace or outside the roots of
\* the endpoint, the resolver returns nothing, so that no file outside the
\* roots is streamed, read or written.  Stated by its conclusion: whatever
\* place a handled request streamed, read or wrote lies under the roots of
\* its endpoint.
C9_NoAccessOutsideRoots ==
    fs_pc = "done" /\ fs_req.accessed # NoPath
        => InRoots(fs_req.endpoint, fs_req.accessed)

(***************************************************************************)
(* Claims about the client key                                             *)
(***************************************************************************)
PeerKey == IF ck_peer # NoIp THEN ck_peer ELSE "unknown"

Parseable(xff) == {i \in 1..Len(xff) : parse_client_ip(xff[i]) # NoIp}

\* The key the request gets when forwarded headers are trusted: the first
\* parseable address of X-Forwarded-For, else that of X-Real-IP, else the
\* peer address, else "unknown".
TrustedKey(xff, xreal) ==
    IF Parseable(xff) # {}
    THEN parse_client_ip(xff[CHOOSE i \in Parseable(xff) :
                                 \A j \in Parseable(xff) : i <= j])
    ELSE IF xreal # AbsentHeader /\ parse_client_ip(xreal) # NoIp
    THEN parse_client_ip(xreal)
    ELSE PeerKey

\* C10: with trustForwardedHeaders false the client key is the peer address
\* whatever X-Forwarded-For and X-Real-IP hold, so all requests of a
\* connection get one key; with it true the key is the first parseable
\* address of X-Forwarded-For, else X-Real-IP, else the peer, else "unknown".
C10_ClientKey ==
    ck_last.key # "none"
      => /\ ~ck_trust => ck_last.key = PeerKey /\ ck_keys = {PeerKey}
         /\ ck_trust => ck_last.key = TrustedKey(ck_last.xff, ck_last.xreal)

C10_Witness ==
    /\ ~ck_trust /\ ck_peer # NoIp
    /\ ck_last.xff = << << "garbage", NoIp >>, << "plain", "10.0.0.1" >> >>
    /\ ck_last.xreal = << "quoted", "2001:db8::1" >>
    /\ ck_last.key = ck_peer


(***************************************************************************)
(* C11: the worker loop never stops on its own: after any outcome of a     *)
(* tick, for any record content, a further tick is eventually run, that    *)
(* is, poll_once is entered again and again.                               *)
(***************************************************************************)
C11_FurtherTickEventuallyRuns == []<>(wpc = "fetch")

(***************************************************************************)
(* C12: if DocStore requests keep succeeding, every user record with       *)
(* status pending is eventually claimed (PATCHed to processing), whatever  *)
(* the number of records in the collection and the order they are listed   *)
(* in.  A worker task ended by a panic is set aside here.                  *)
(***************************************************************************)
C12_PendingEventuallyClaimed ==
    \A id \in 1..IdBound :
        [](UserStatus(id) = "pending"
             => <>(UserStatus(id) = "processing" \/ wpc = "panicked"))

(***************************************************************************)
(* Claims about the limiter called from several threads                    *)
(***************************************************************************)
\* C13: in every reachable state, also with allow calls of several threads
\* in flight, the number of tracked keys is at most max_keys, and max_keys
\* is at least 1.
C13_TrackedKeysWithinCapacity ==
    max_keys >= 1 /\ Cardinality(DOMAIN requests) <= max_keys

C13_Witness ==
    /\ Cardinality(DOMAIN requests) = max_keys
    /\ lim_obs.evicted # NoKey
    /\ \E t \in Threads : lim_calls[t] # NoCall /\ lim_calls[t].now < clock

\* C14: when allow(k) runs for a key absent from the map while the map holds
\* max_keys keys and the sweep removes none of them, exactly one key is
\* evicted, its most recent timestamp is the smallest among the tracked
\* keys', and k is admitted: allow returns true and k is tracked.
MostRecent(ts) == CHOOSE x \in {ts[i] : i \in 1..Len(ts)} : \A i \in 1..Len(ts) : x >= ts[i]

AtCapacityNothingSwept(c) ==
    /\ c.key \notin DOMAIN requests
    /\ Cardinality(DOMAIN requests) >= max_keys
    /\ DOMAIN prune_stale(requests, Cutoff(c.now)) = DOMAIN requests

EvictsLeastRecent(c) ==
    \E ev \in DOMAIN requests :
        /\ DOMAIN requests' = ((DOMAIN requests) \ {ev}) \cup {c.key}
        /\ \A o \in DOMAIN requests :
              MostRecent(requests[ev]) <= MostRecent(requests[o])
        /\ lim_obs'.key = c.key /\ lim_obs'.res = TRUE

C14_EvictsLeastRecentAndAdmits ==
    [][\A t \in Threads :
          lim_calls[t] # NoCall /\ lim_calls'[t] = NoCall
            /\ AtCapacityNothingSwept(lim_calls[t])
          => EvictsLeastRecent(lim_calls[t])]_vars

\* C15: while at most max_keys distinct keys were seen, the result of each
\* allow(TrackedKey) is the result a limiter gives that is called with the
\* calls on TrackedKey alone (same clock readings, same order): the calls
\* on other keys make no difference.
C15_ResultIndependentOfOtherKeys ==
    lim_obs.key = TrackedKey /\ Cardinality(lim_obs.seen) <= max_keys
        => lim_obs.res = lim_obs.alone.res

(***************************************************************************)
(* Claims about the idempotency memory called from several threads         *)
(***************************************************************************)
\* C16: in every reachable state of the idempotency memory, concurrent
\* record_if_new calls included, the number of stored keys is at most
\* max(maxKeys, 1); a store created with maxKeys = 0 has capacity 1.
C16_StoredKeysWithinCapacity ==
    idem_max_keys >= 1 /\ Cardinality(DOMAIN idem_keys) <= idem_max_keys

C16_Witness ==
    /\ Cardinality(DOMAIN idem_keys) = idem_max_keys
    /\ idem_last.evicted # NoKey
    /\ \E t \in Threads : idem_calls[t] # NoCall /\ idem_calls[t].now < clock

\* The call c finds its key absent and max_keys keys stored, after expiry.
InsertsAtCapacity(c) ==
    LET kept == RetainFresh(idem_keys, c.now)
    IN c.key \notin DOMAIN kept /\ Cardinality(DOMAIN kept) = idem_max_keys

\* C17: when record_if_new inserts a new key while the memory, after expiry,
\* holds maxKeys keys, exactly one key is evicted, one that was inserted
\* before or together with every other stored key, and the keys inserted
\* after it remain.
C17_EvictsOldestInserted ==
    [][\A t \in Threads :
          /\ idem_calls[t] # NoCall /\ idem_calls'[t] = NoCall
          /\ InsertsAtCapacity(idem_calls[t])
          => LET c == idem_calls[t]
                 kept == RetainFresh(idem_keys, c.now)
             IN \E ev \in DOMAIN kept :
                   /\ \A o \in DOMAIN kept : idem_inserted[ev] <= idem_inserted[o]
                   /\ DOMAIN idem_keys' = (DOMAIN kept \ {ev}) \cup {c.key}]_vars

\* C18: a key recorded at time t is new again for a record_if_new call that
\* reads the clock at t + ttl or later: the call returns true and stores the
\* key with its own clock reading.
C18_NewAgainAfterTtl ==
    /\ idem_last.key = TrackedKey
    /\ idem_mark.at >= 0
    /\ idem_last.at - idem_mark.at >= IDEMPOTENCY_TTL
    => /\ idem_last.res
       /\ TrackedKey \in DOMAIN idem_keys
       /\ idem_keys[TrackedKey] = idem_last.at

C18_Witness ==
    /\ idem_last.key = TrackedKey
    /\ idem_mark.at >= 0
    /\ idem_last.at - idem_mark.at = IDEMPOTENCY_TTL
    /\ idem_last.res
    /\ idem_keys[TrackedKey] = idem_last.at
    /\ Cardinality(DOMAIN idem_keys) = 2

(***************************************************************************)
(* Claims about the desktop supervisor                                     *)
(***************************************************************************)
\* Every child was sent a kill at most once.
KilledAtMostOnce ==
    \A i, j \in DOMAIN desk_kills : desk_kills[i] = desk_kills[j] => i = j

\* The agent daemon was sent its kill before the DocStore daemon.
AgentKilledFirst ==
    \A i, j \in DOMAIN desk_kills :
        desk_kills[i] = "slowclaw_daemon" /\ desk_kills[j] = "pocketbase" => i < j

\* C19: on the shutdown triggers of the desktop supervisor (CloseRequested,
\* ExitRequested, Exit), in any order and number, the agent daemon is killed
\* before the DocStore daemon, each child is killed at most once, and once the
\* first trigger is handled both children were killed and no slot holds a
\* child.
C19_ShutdownKillsAgentFirstOnce ==
    /\ KilledAtMostOnce
    /\ AgentKilledFirst
    /\ desk_handled >= 1 =>
          /\ desk_kills = << "slowclaw_daemon", "pocketbase" >>
          /\ \A slot \in DOMAIN runtime : runtime[slot] = "None"

C19_Witness ==
    /\ desk_handled = 3
    /\ {desk_events[i] : i \in DOMAIN desk_events} = Triggers
    /\ desk_events[1] = "Exit"
    /\ desk_kills = << "slowclaw_daemon", "pocketbase" >>

(***************************************************************************)
(* Claims about run_gateway                                                *)
(***************************************************************************)
\* run_gateway has returned after it started both the sidecar and the worker.
ReturnedAfterBothStarted ==
    /\ gw_pc = "returned"
    /\ sidecar_child # "absent"
    /\ worker_task # "absent"

\* C20: whenever run_gateway returns after the chat worker and the DocStore
\* sidecar were started, normally or with an error from the provider, memory
\* or tunnel setup or from the HTTP server, the worker task has been aborted
\* and the sidecar process has been sent a kill.
C20_ReturnAbortsWorkerKillsSidecar ==
    ReturnedAfterBothStarted =>
        worker_task = "aborted" /\ sidecar_child = "kill_sent"

(***************************************************************************)
(* Claims about the desktop client                                         *)
(***************************************************************************)
\* The gateway accepts the token as a bearer token.
AcceptedByGateway(token) == ~require_pairing \/ is_authenticated(token)

\* C21: the desktop token bootstrap skips pairing and keeps the token of the
\* keyring only if the running gateway accepts that token as a bearer token.
C21_SkipsPairingOnlyWithValidToken ==
    boot.pc = "done" /\ boot.skipped => AcceptedByGateway(keyring)

\* The call i of generate_mobile_pairing_qr succeeded.
QrSucceeded(i) == qr[i].pc = "done" /\ qr[i].ok

\* C22: a successful generate_mobile_pairing_qr made POST /pair/new-code with
\* the desktop token, then POST /pair with the code it got; its token is a
\* second token, different from the desktop token, and afterwards the
\* gateway authenticates both.
C22_QrMintsSecondToken ==
    \A i \in QrCalls :
        QrSucceeded(i) =>
            /\ qr[i].posts = << "/pair/new-code", "/pair" >>
            /\ qr[i].desktop = keyring
            /\ qr[i].token \notin {NoToken, qr[i].desktop}
            /\ is_authenticated(qr[i].desktop)
            /\ is_authenticated(qr[i].token)

C22_Witness ==
    /\ \A i \in QrCalls : QrSucceeded(i)
    /\ qr[1].token # qr[2].token
    /\ Cardinality(guard_tokens) = 3

\* C23: generate_mobile_pairing_qr never returns a payload whose gatewayUrl
\* host is a loopback address.
C23_QrHostNeverLoopback ==
    \A i \in QrCalls : QrSucceeded(i) => qr[i].host # LoopbackHost


(***************************************************************************)
(* Claims about the webhook signatures                                     *)
(***************************************************************************)
ToLowerHex(text) ==
    [i \in 1..Len(text) |->
        IF \E d \in 1..16 : text[i] = HexUpper[d]
        THEN HexLower[CHOOSE d \in 1..16 : text[i] = HexUpper[d]]
        ELSE text[i]]

\* The signature is the style's prefix followed by the hex text of the
\* HMAC of the payload under the secret.
IsSignatureOf(signature, style, secret, salt, body) ==
    /\ strip_prefix(signature, PrefixOf(style)) # NoPrefix
    /\ ToLowerHex(strip_prefix(signature, PrefixOf(style)))
           = HexEncode(Hmac(secret, Payload(style, salt, body)), HexLower)

\* C24: for each signature style, verification returns true exactly when
\* the supplied signature is the hex HMAC-SHA256 of the style's payload
\* under the secret (with the prefix sha256= for WhatsApp), and false for a
\* signature of another body, salt or secret and for a truncated, over-long,
\* malformed or unprefixed one.
C24_SignatureVerification ==
    sig # NoSig =>
        (sig.result <=> IsSignatureOf(sig.signature, sig.style, sig.secret, sig.salt, sig.body))

\* The WhatsApp style alone.
WhatsAppSignatureVerification ==
    sig.style = "whatsapp" =>
        (sig.result <=> IsSignatureOf(sig.signature, sig.style, sig.secret, sig.salt, sig.body))


(***************************************************************************)
(* Claims about the reminder parser's numbers                              *)
(***************************************************************************)
\* The message the normalisation leaves of each text.
NormalizedText(text) ==
    CASE text = << "g", "o" >> -> << "g", "o" >>
      [] text = << "t", "o", " ", "g", "o", "." >> -> << "g", "o" >>
      [] OTHER -> << >>

HumanLabel(n, unit) ==
    DecText(Decimal(n)) \o << " " >> \o UnitLabel(unit)
        \o (IF Decimal(n) = << 1 >> THEN << >> ELSE << "s" >>)

\* C26: for "/remind <n><unit> <text>" with a positive n of any magnitude
\* and a unit of the table the slash recognizer yields delay = n times the
\* unit's seconds, the normalized message and delayHuman "<n> <unit>" with a
\* plural s iff n # 1, without overflow or abort; for n = 0, an unknown
\* unit or an empty normalized message it yields no intent.
C26_SlashRemindAnyMagnitude ==
    parsed # NoParse =>
        IF Decimal(parsed.n) # << >> /\ parsed.unit \in DelayUnits
           /\ NormalizedText(parsed.text) # << >>
        THEN parsed.result =
                 [message |-> NormalizedText(parsed.text),
                  delay |-> DecTimes(Decimal(parsed.n), UnitSeconds(parsed.unit)),
                  delay_human |-> HumanLabel(parsed.n, parsed.unit)]
        ELSE parsed.result = IntentNone

\* The same for the amounts whose duration chrono can hold.
SlashRemindWithinDuration ==
    parsed # NoParse
    /\ ~DecLess(MaxDurationSeconds,
                DecTimes(Decimal(parsed.n),
                         IF parsed.unit \in DelayUnits THEN UnitSeconds(parsed.unit) ELSE 1))
    => C26_SlashRemindAnyMagnitude


(***************************************************************************)
(* Claims about the reminder path of a tick                                *)
(***************************************************************************)
\* The tick is through with the record, and no scheduler or DocStore call
\* failed.
ReminderTickOver ==
    /\ TickIntent[tick_rec.content] # IntentNone
    /\ tick_pc \in {"continue", "aborted", "panicked"}
    /\ ~tick_failed

ReminderScheduled ==
    /\ Len(jobs) = 1
    /\ jobs[1].once
    /\ jobs[1].run_at = tick_run_at
    /\ \E c \in 0..MaxTickClock :
           jobs[1].run_at = DecPlus(UtcNow(c), TickIntent[tick_rec.content].delay)
    /\ jobs[1].delivery =
           [mode |-> "announce", channel |-> "pocketbase",
            to |-> IF tick_rec.thread \in {<< "t", "1" >>, << " ", "t", "1", " " >>}
                   THEN << "t", "1" >> ELSE DefaultThread,
            best_effort |-> TRUE]
    /\ Len(tick_replies) = 1
    /\ tick_replies[1].role = "assistant"
    /\ tick_replies[1].replyToId = tick_rec.id
    /\ tick_rec.status = "done"
    /\ tick_agent = 0

\* C25: when the parser matches the content of the claimed record and the
\* scheduler and DocStore calls succeed, the tick creates exactly one
\* one-shot job with runAt = now + delay and the pocketbase delivery to the
\* normalized threadId, writes one assistant record replying to the source,
\* patches the source to done and does not call Agent.Process.
C25_ReminderScheduledOnce == ReminderTickOver => ReminderScheduled

\* The same for the delays that end within chrono's dates.
ReminderScheduledWithinDates ==
    ReminderTickOver /\ tick_pc # "panicked" => ReminderScheduled


(***************************************************************************)
(* Claims about the channel execution context                              *)
(***************************************************************************)
\* default_cron_delivery_for_current_channel returns the pocketbase
\* delivery to the context's recipient exactly when the caller is inside a
\* scope whose channel is pocketbase, and none otherwise.
C27_DeliveryExactlyInPocketbaseScope ==
    ctx_call.task # 0 =>
        ctx_call.result =
            IF ctx_call.inside /\ ctx_call.ctx.channel = Pocketbase
            THEN [mode |-> "announce", channel |-> "pocketbase",
                  to |-> ctx_call.ctx.recipient, best_effort |-> TRUE]
            ELSE NoDelivery

TrimmedRecipient(recipient) ==
    IF recipient \in {<< "t", "1" >>, << " ", "t", "1" >>} THEN << "t", "1" >> ELSE << >>
IsPocketbaseChannel(channel) ==
    channel \in {Pocketbase, << " ", "P", "o", "c", "k", "e", "t", "B", "a", "s", "e" >>}

\* C27: default_cron_delivery_for_current_channel returns {announce,
\* pocketbase, to = the trimmed recipient, bestEffort} exactly when it is
\* called inside a scope of the calling task whose channel, trimmed and in
\* lower case, is pocketbase and whose recipient is not blank; it returns
\* none outside any scope, in a scope of another channel, after the scope
\* has ended and in any other task running beside the scope.
C27_DeliveryInPocketbaseScopeWithRecipient ==
    ctx_call.task # 0 =>
        ctx_call.result =
            IF /\ ctx_call.inside
               /\ IsPocketbaseChannel(ctx_call.ctx.channel)
               /\ TrimmedRecipient(ctx_call.ctx.recipient) # << >>
            THEN [mode |-> "announce", channel |-> "pocketbase",
                  to |-> TrimmedRecipient(ctx_call.ctx.recipient), best_effort |-> TRUE]
            ELSE NoDelivery

\* A task outside any scope got none while the other task was inside a
\* pocketbase scope.
C27_Witness ==
    /\ ctx_call.task = 2
    /\ ~ctx_call.inside
    /\ ctx_call.result = NoDelivery
    /\ scopes[1] = << ChannelExecutionContext(Pocketbase, << "t", "1" >>) >>


(***************************************************************************)
(* Claims about the third-party channel paths                              *)
(***************************************************************************)
\* C28: a webhook request to the path of a third-party channel whose client
\* is absent from the state is answered 404 with the JSON body
\* {"error": "<channel> not configured"}, and the agent is not invoked.
C28_DisabledChannelAnswers404 ==
    \A c \in ThirdParty \ clients :
        answered.method = "POST" /\ answered.path = WebhookPath(c) =>
            answered.response = Response(404, "json", NotConfigured(c), FALSE)

\* The agent is not invoked for a channel without a client.
DisabledChannelNeverReachesAgent ==
    \A c \in ThirdParty \ clients :
        answered.path = WebhookPath(c) => ~answered.response.agent


(***************************************************************************)
(* Claims about the bodies of the webhook's responses                      *)
(***************************************************************************)
Answered(r) == web[r].pc = "done"
FailureHasError(r) ==
    web[r].status \in {429, 401, 400, 500} => "error" \in web[r].fields

\* Every failure response of POST /webhook is a JSON object with `error`,
\* and every 200 response includes `response` and `model`.
C29_EverySuccessHasResponseAndModel ==
    \A r \in Reqs :
        Answered(r) =>
            /\ FailureHasError(r)
            /\ web[r].status = 200 => {"response", "model"} \subseteq web[r].fields

\* C29: every failure response of POST /webhook (429, 401, 400, 500) is a
\* JSON object with an `error` string; every 200 response to a request that
\* was processed includes `response` and `model`, and the 200 response to a
\* duplicate idempotency key carries `status`, `idempotent` and `message`
\* instead.
C29_ResponseBodies ==
    \A r \in Reqs :
        Answered(r) =>
            /\ web[r].status \in {429, 401, 400, 500, 200}
            /\ FailureHasError(r)
            /\ web[r].status = 200 /\ web[r].invoked
                   => {"response", "model"} \subseteq web[r].fields
            /\ web[r].status = 200 /\ ~web[r].invoked
                   => /\ web[r].fields = {"status", "idempotent", "message"}
                      /\ TrimmedHeader(web[r].idem) # NoHeader

\* One request was answered with the provider's response, the next, with
\* the same idempotency key, as a duplicate.
C29_Witness ==
    /\ Answered(1) /\ web[1].status = 200 /\ web[1].invoked
    /\ Answered(2) /\ web[2].status = 200 /\ ~web[2].invoked


(***************************************************************************)
(* Claims about the refusal of a public bind                               *)
(***************************************************************************)
\* C30: with a public (non-loopback) host, no tunnel provider and
\* allow_public_bind false, run_gateway fails at its first statement: the
\* listener is never bound, the sidecar never spawned and the chat worker
\* never started.
C30_PublicBindRefusedBeforeAnythingStarts ==
    /\ gw_pc # "idle"
    /\ is_public_bind(gw_config.host)
    /\ gw_config.provider = "none"
    /\ ~gw_config.allow_public_bind
    => /\ gw_pc \in {"check", "returned"}
       /\ gw_pc = "returned" => gw_result = "Err" /\ gw_stage = "check"
       /\ listener = "unbound"
       /\ sidecar_child = "absent"
       /\ worker_task = "absent"
       /\ worker_ticks = 0

C30_Witness ==
    /\ gw_pc = "returned"
    /\ gw_result = "Err"
    /\ gw_stage = "check"
    /\ gw_config = GatewayConfig("0.0.0.0", "none", FALSE)

(***************************************************************************)
(* Claims about the limiter's decisions                                    *)
(***************************************************************************)
\* C31: with limit_per_window = 0, allow(k) returns true for every key and
\* after every call history.
C31_ZeroLimitAlwaysAllows ==
    limit_per_window = 0 => lim_obs.res = TRUE

C31_Witness ==
    /\ limit_per_window = 0
    /\ lim_obs.key = "c"
    /\ clock > 0

\* The number of times t occurs in the list ts.
Count(ts, t) == Cardinality({i \in 1..Len(ts) : ts[i] = t})

\* C32: allow(k) counts only k's admitted requests whose timestamp is
\* strictly later than now - window: every timestamp kept for k is the clock
\* reading of an admitted call on k later than the latest call's now - window
\* (a refused call adds none), and a call on k is admitted whenever fewer
\* than limit of k's admitted requests lie later than its now - window, also
\* after k was refused.
C32_CountsAdmittedInWindow ==
    LET h == lim_obs.hist
        ts == IF TrackedKey \in DOMAIN requests THEN requests[TrackedKey] ELSE << >>
    IN /\ \A i \in 1..Len(ts) :
              /\ ts[i] > h.now - RATE_LIMIT_WINDOW
              /\ ts[i] \in DOMAIN h.admitted
              /\ Min(Count(ts, ts[i]), limit_per_window) <= h.admitted[ts[i]]
       /\ lim_obs.key = TrackedKey /\ h.before < limit_per_window
              => lim_obs.res = TRUE

\* k was refused, and at its next call admitted again: its admitted request
\* made exactly one window earlier is no longer counted.
C32_Witness ==
    LET h == lim_obs.hist
    IN /\ limit_per_window = 1
       /\ lim_obs.key = TrackedKey /\ lim_obs.res = TRUE
       /\ h.now >= 2 * RATE_LIMIT_WINDOW
       /\ h.denied
       /\ h.now - RATE_LIMIT_WINDOW \in DOMAIN h.admitted
       /\ requests[TrackedKey] = << h.now >>

\* C39: the decisions depend only on the differences between the call
\* times: at every clock reading, readings smaller than the window
\* included, a call on k beyond the limit-th within one window is refused
\* (k not evicted in between).
C39_DeniedAtAnyClockReading ==
    RunWithinWindow /\ ~lim_run.evicted /\ lim_run.count > limit_per_window
        => lim_run.res = FALSE

\* The same for clock readings of at least one window.
DeniedAtRepresentableCutoff ==
    RunWithinWindow /\ ~lim_run.evicted /\ lim_run.count > limit_per_window
        /\ lim_run.start >= RATE_LIMIT_WINDOW
        => lim_run.res = FALSE

(***************************************************************************)
(* Claims about the ticks of the DocStore chat worker                      *)
(***************************************************************************)
Finished(id) == recs[id].status \in {"done", "error"}
Replies(id) == {a \in RecIds : recs[a].role = "assistant" /\ recs[a].replyToId = id}

\* C33: in each tick the worker claims at most MAX_PENDING_PER_POLL (8 in
\* the source) records, one at a time (a record is claimed only after the
\* handling of the record claimed before it in that tick has finished), and
\* it takes the fetched pending user records in the reverse of the order in
\* which the DocStore listed them.
C33_ClaimsCappedSequentialReversed ==
    LET c == poll.claimed
        l == poll.listed
    IN /\ Len(c) <= MAX_PENDING_PER_POLL
       /\ Len(c) <= Len(l)
       /\ \A i \in 1..Len(c) : c[i] = l[Len(l) + 1 - i]
       /\ \A i \in 1..(Len(c) - 1) : Finished(c[i]) \/ c[i] = cur
       /\ wpc = "claim" => \A i \in 1..Len(c) : Finished(c[i])
       /\ c # << >> /\ wpc # "claim" => cur = c[Len(c)]

\* Three records were fetched and the two listed last were claimed, the
\* last one first.
C33_Witness ==
    /\ Len(poll.listed) = MAX_PENDING_PER_POLL + 1
    /\ Cardinality({poll.listed[i] : i \in 1..Len(poll.listed)}) = Len(poll.listed)
    /\ Len(poll.claimed) = MAX_PENDING_PER_POLL
    /\ wpc = "terminal"

\* C34: if the claim PATCH of a record fails, neither the agent nor the
\* scheduler is invoked for it and no assistant record is written, no
\* further record is processed in that tick, and the records of the tick
\* not yet claimed keep status pending.
C34_FailedClaimEndsTick ==
    LET f == poll.failed
    IN f.id # 0 =>
         /\ wpc = "sleep" /\ cur = 0 /\ pending = << >>
         /\ recs[f.id].status # "processing"
         /\ \A i \in 1..Len(f.handed) : handed[i] = f.handed[i]
         /\ \A i \in RecIds : i > f.nrecs => recs[i].role = "user"
         /\ \A i \in 1..Len(f.rest) : recs[f.rest[i]].status = "pending"

\* The claim PATCH of one of two fetched records failed, and a client has
\* posted since.
C34_Witness ==
    /\ poll.failed.id # 0
    /\ poll.failed.rest # << >>
    /\ Len(recs) > poll.failed.nrecs
    /\ recs[poll.failed.id].status = "pending"

\* Record id has empty content: it never goes to the agent, the scheduler
\* or the memory store, no assistant record replies to it, and once its
\* PATCH to error is made the tick goes on to the next record.
EmptyContentOnlyPatched(id) ==
    /\ handed[id] = 0
    /\ id \notin poll.stored
    /\ Replies(id) = {}
    /\ poll.claimed # << >> /\ poll.claimed[Len(poll.claimed)] = id
           /\ recs[id].status = "error"
         => wpc = "claim" /\ cur # 0

\* C35: a claimed record whose content is empty after trimming is PATCHed
\* terminally to error without the agent, the scheduler or the memory store
\* being invoked and without an assistant record, and the tick continues
\* with the next record: such a record is processing only while the worker
\* is about to PATCH it.
C35_EmptyContentEndsInError ==
    \A id \in UserIds :
        recs[id].kind = "empty"
          => /\ EmptyContentOnlyPatched(id)
             /\ recs[id].status = "processing" => cur = id /\ wpc = "empty"

\* The same without the outcome of the PATCH.
EmptyContentNeverHandedOver ==
    \A id \in UserIds : recs[id].kind = "empty" => EmptyContentOnlyPatched(id)

\* C37: a user record has status done only if an assistant record replies
\* to it, and no user record has more than one assistant record replying
\* to it.
C37_DoneHasExactlyOneReply ==
    \A id \in UserIds :
        /\ recs[id].status = "done" => Replies(id) # {}
        /\ Cardinality(Replies(id)) <= 1

\* The first half alone.
DoneHasReply ==
    \A id \in UserIds : recs[id].status = "done" => Replies(id) # {}

ForwardSteps ==
    { << "pending", "processing" >>, << "processing", "done" >>,
      << "processing", "error" >> }

\* C38: the worker changes a record only if it is a user record it fetched
\* as pending in this tick, and only along pending -> processing -> done or
\* pending -> processing -> error: a record that is done or error is never
\* changed, none returns to pending, no assistant record is PATCHed.
C38_StatusOnlyForward ==
    [][\A id \in RecIds :
          recs'[id] # recs[id]
            => /\ recs[id].role = "user"
               /\ \E i \in 1..Len(poll.listed) : poll.listed[i] = id
               /\ << recs[id].status, recs'[id].status >> \in ForwardSteps]_vars

\* The same, but for the claim of a record that is done or error.
StatusOnlyOfFetchedUserRecords ==
    [][\A id \in RecIds :
          recs'[id] # recs[id]
            => /\ recs[id].role = "user"
               /\ \E i \in 1..Len(poll.listed) : poll.listed[i] = id
               /\ recs'[id].status # "pending"
               /\ recs[id].status = "processing" => recs'[id].status \in {"done", "error"}]_vars
\* The request ended in 500 because the provider failed.
ProviderFailed(r) ==
    web[r].pc = "done" /\ web[r].status = 500 /\ web[r].invoked

\* The key of a request on its way to the provider is in the idempotency
\* memory, as long as it is fresh and was not evicted.
RecordedBeforeProvider(r) ==
    /\ web[r].pc = "provider" /\ IdemKey(r) # NoHeader
    /\ ~web[r].evicted /\ clock - web[r].at < IDEMPOTENCY_TTL
    => /\ web[r].isNew /\ ~web[r].invoked
       /\ IdemKey(r) \in DOMAIN idem_keys

\* r2 is a retry of r1: it asked the idempotency memory with r1's key after
\* r1 had ended in 500, less than ttl after r1 asked.
RetryAfterFailure(r1, r2) ==
    /\ SameKeyWithinTtl(r1, r2) /\ web[r1].isNew
    /\ ProviderFailed(r1)
    /\ web[r2].seq > web[r1].failedAt

Rejected(q) == q.pc = "done" /\ q.status \in {429, 401, 400}

\* The /pair request was answered by the pair limiter.
DeniedByPairLimiter(q) == q.pc = "done" /\ ~q.tried

\* C36: a rejected request has no effect on later admission components: a
\* /webhook request answered 429, 401 or 400 never asked the idempotency
\* memory and never had the provider invoked, and the step that answers it
\* leaves the idempotency memory unchanged; a /pair request denied by the
\* pair rate limiter is answered 429 without try_pair, and the step that
\* answers it leaves the pairing guard's code, tokens and failure counter
\* unchanged.
C36_RejectedRequestsLeaveNoTrace ==
    /\ [](\A r \in Reqs :
            Rejected(web[r]) => ~web[r].invoked /\ ~Checked(r) /\ ~web[r].isNew)
    /\ [](\A p \in PairReqs :
            DeniedByPairLimiter(pair[p])
               => pair[p].status = 429 /\ pair[p].token = NoToken)
    /\ [][/\ \A r \in Reqs :
               ~Rejected(web[r]) /\ Rejected(web'[r]) => UNCHANGED idemVars
          /\ \A p \in PairReqs :
               /\ ~DeniedByPairLimiter(pair[p]) /\ DeniedByPairLimiter(pair'[p])
               => UNCHANGED << pairing_code, guard_tokens, failures_by_key >>]_vars

C36_Witness ==
    /\ Rejected(web[1]) /\ web[1].status = 401 /\ web[1].idem = "a"
    /\ idem_keys = << >>
    /\ web[2].pc = "idem" /\ web[2].idem = "a"
    /\ DeniedByPairLimiter(pair[1]) /\ pair[1].code = Code(0)
    /\ pairing_code = Code(1) /\ guard_tokens = {Token(1)}
    /\ failures_by_key = 0
    /\ pair[2].pc = "try" /\ pair[2].code = Code(1)
====
